---- MODULE Spec2Model ----
(***************************************************************************)
(* Model of the nutritional-data notebook of voges/ml-nutrition-tutorial:  *)
(* the iterative feature elimination (drop_feature_experiment), its        *)
(* repetition (avg_drop_feature_experiment), the ranking cell that sorts   *)
(* the features by the median of their drop counts, the averaging of       *)
(* repeated random-forest fits (avg_random_forest_fit_predict), the        *)
(* averaging over local splits (multisplit_avg_random_forest_fit_predict)  *)
(* and the preprocessing of the loaded file (preprocess_dataset).          *)
(*                                                                         *)
(* Python lists are objects: two names can hold the same list.  The model  *)
(* keeps them in a heap (a sequence of list values) and the variables hold *)
(* references (indices into the heap), so that aliasing is visible.        *)
(*                                                                         *)
(* The random forest and train_test_split are library calls with random    *)
(* results.  A fit is a nondeterministic choice of scores and importances; *)
(* a split is identified by the serial number of the call that drew it.    *)
(***************************************************************************)
EXTENDS Integers, Sequences, FiniteSets, TLC

\* ---------------------------------------------------------------- bounds
NumFeatures    == 3   \* columns of the preprocessed frame: 0..NumFeatures
MaxRuns        == 2   \* n_runs of avg_drop_feature_experiment: 0..MaxRuns
MaxImportance  == 1   \* importances are drawn from 0..MaxImportance
MaxIterations  == 2   \* n_iterations of the stand-alone averaging: 0..MaxIterations
MaxStabColumns == 2   \* columns of the frame handed to the stand-alone averaging
NumRows        == 4   \* rows of the file that is preprocessed
MaxValue       == 1   \* its cells are drawn from 0..MaxValue, or are missing
MaxCalls       == 2   \* preprocess_dataset is called at most MaxCalls times on the file
MaxMultiColumns    == 3   \* columns of the frame the multi-split averaging is called on
MaxLayerIterations == 2   \* its n_forest_iterations and n_dataset_iterations: 1..MaxLayerIterations
MaxSeqLen      == 3   \* characters of the sequence build_kmers is called on: 0..MaxSeqLen
MaxExportLines == 2   \* lines conda env export writes: 0..MaxExportLines
MaxRunFeatures == 3   \* features of the run whose calls are followed: 0..MaxRunFeatures
MaxFileRows    == 3   \* cells of the column of the file load_dataset reads: 0..MaxFileRows

VARIABLES
    \* --- the notebook's position
    pc,                           \* "agg_loop" | "while" | "merge" | "returned" | "ranked" | "rank_error"
    \* --- the input file, as the preprocessed frame's column list
    columns,
    \* --- objects
    heap,                         \* heap[r] is the value of the list object with reference r
    n_splits,                     \* number of train_test_split calls made so far
    \* --- avg_drop_feature_experiment
    n_runs, i, feature_drop_counts, curr_feature_drop_iterations,
    \* --- drop_feature_experiment (locals of the running call)
    X_train, X_test, results, feature_names, feature_drop_iterations,
    training_loss, validation_loss, feature_importances, least_important_feature,
    \* --- the ranking cell
    features_sorted, drop_counts_sorted,
    \* --- history of the runs (observers, not program state)
    fitted,                       \* per round of the current run: the active list the round was fitted on
    dropped,                      \* per round of the current run: the feature the round removed
    partitions,                   \* per round of the current run: the frame handed to the multi-split
                                  \* averaging and the serial numbers of the local splits it drew from it
    run_log,                      \* per finished run: what the run recorded for each feature, and the
                                  \* round (1, 2, ...) in which it removed the feature
    dominant,                     \* features that had the strictly greatest importance in every round they took part in
    \* --- avg_random_forest_fit_predict called on its own
    st_pc,                        \* "idle" | "call" | "loop" | "returned" | "raised"
    n_iterations, st_columns, st_it,
    total_training_loss, total_validation_loss, total_feature_importances,
    fit_log,                      \* the results random_forest_fit_predict returned, in call order
    st_result,
    st_args,                      \* the frames, labels and hyperparameters the function was called with
    fit_calls,                    \* the arguments of the random_forest_fit_predict calls, in call order
    \* --- preprocess_dataset called on a loaded file
    pre_pc,                       \* "idle" | "cell" | "imputed" | "standardized" | "returned" | "raised"
    frames,                       \* frames[r] is the value of the frame object with reference r
    dataset,                      \* the loaded frame (a reference)
    raw,                          \* the value of the loaded frame when it was loaded
    dataset_imputed, dataset_standardized, labels, dataset_preprocessed,
    n_calls,                      \* number of preprocess_dataset calls made so far
    \* --- multisplit_avg_random_forest_fit_predict called by one round
    ms_pc,                        \* "idle" | "call" | "split" | "fit" | "returned" | "selected"
    ms_columns,                   \* the columns of X_train in drop_feature_experiment
    ms_names,                     \* feature_names: the active list of the round
    ms_X_train,                   \* the columns of the frame the function is given
    n_forest_iterations,
    ms_dataset_iterations,        \* the parameter n_dataset_iterations
    ms_split, ms_fit,             \* dataset iterations done, fits done on the current split
    ms_inner_total,               \* total_feature_importances of avg_random_forest_fit_predict
    ms_total,                     \* total_feature_importances of the multi-split averaging
    ms_result,                    \* the frame of averaged importances it returns
    ms_least,                     \* least_important_feature
    name_total,                   \* per column name: the sum of the importances the fits gave it
    \* --- build_kmers
    km_pc,                        \* "idle" | "call" | "returned"
    sequence, km_k, kmers,
    \* --- conda_env_export.sh
    sh_pc,                        \* "idle" | "start" | "export" | "grep" | "mv" | "echo" | "exited"
    in_repo,                      \* the script is started inside a git repository
    conda_ok,                     \* conda env export succeeds
    export_lines,                 \* the lines conda env export writes to its standard output
    git_root,
    fs,                           \* the files at the paths the script can touch
    fs_before,                    \* those files when the script was started
    conda_runs,                   \* number of times conda was run
    last_status,                  \* $?: the exit status of the last command
    sh_stdout, sh_stderr,         \* what the script printed
    exit_status,                  \* the script's exit status, -1 while it runs
    \* --- the calls of one elimination run
    rn_pc,                        \* "idle" | "start" | "while" | "dataset_loop" | "forest_loop"
                                  \*   | "returned" | "raised"
    rn_features,                  \* feature_names
    rn_num_features,              \* the number of features the run started with
    rn_forest_iterations,         \* n_forest_iterations of the calls
    rn_dataset_iterations,        \* n_dataset_iterations of the calls
    rn_outer,                     \* X_train, X_test of drop_feature_experiment
    rn_given,                     \* X_train of multisplit_avg_random_forest_fit_predict
    rn_local,                     \* X_train_local, X_val_local
    rn_d, rn_f,                   \* finished dataset iterations and forest iterations
    split_log,                    \* per call of train_test_split: the frame it was given
    trainer_log,                  \* per call of random_forest_fit_predict: X_train, X_test
    \* --- load_dataset
    ld_pc,                        \* "idle" | "call" | "read" | "replaced" | "returned"
    ld_file,                      \* the texts of the cells of the file
    ld_heap,                      \* the frames, each a sequence of cells
    ld_df,                        \* df: a reference into ld_heap
    ld_replaced,                  \* the result of df.replace
    ld_result                     \* the returned reference

elim_vars == <<pc, columns, heap, n_splits, n_runs, i, feature_drop_counts,
               curr_feature_drop_iterations, X_train, X_test, results, feature_names,
               feature_drop_iterations, training_loss, validation_loss,
               feature_importances, least_important_feature, features_sorted,
               drop_counts_sorted, fitted, dropped, partitions, run_log, dominant>>

stab_vars == <<st_pc, n_iterations, st_columns, st_it, total_training_loss,
               total_validation_loss, total_feature_importances, fit_log, st_result,
               st_args, fit_calls>>

pre_vars == <<pre_pc, frames, dataset, raw, dataset_imputed, dataset_standardized,
              labels, dataset_preprocessed, n_calls>>

multi_vars == <<ms_pc, ms_columns, ms_names, ms_X_train, n_forest_iterations,
                ms_dataset_iterations, ms_split, ms_fit, ms_inner_total, ms_total,
                ms_result, ms_least, name_total>>

kmer_vars == <<km_pc, sequence, km_k, kmers>>

sh_vars == <<sh_pc, in_repo, conda_ok, export_lines, git_root, fs, fs_before, conda_runs,
             last_status, sh_stdout, sh_stderr, exit_status>>

run_vars == <<rn_pc, rn_features, rn_num_features, rn_forest_iterations,
              rn_dataset_iterations, rn_outer, rn_given, rn_local, rn_d, rn_f, split_log,
              trainer_log>>

load_vars == <<ld_pc, ld_file, ld_heap, ld_df, ld_replaced, ld_result>>

vars == <<elim_vars, stab_vars, pre_vars, multi_vars, kmer_vars, sh_vars, run_vars, load_vars>>

\* ------------------------------------------------------- general helpers
Range(s) == {s[j] : j \in DOMAIN s}

IndexOf(s, x) == CHOOSE j \in DOMAIN s : s[j] = x /\ \A m \in 1..(j - 1) : s[m] # x

Min(S) == CHOOSE x \in S : \A y \in S : x <= y

\* ------------------------------------------------ numbers (exact fractions)
\* A float is modelled by the exact fraction <<numerator, denominator>> in
\* lowest terms, denominator > 0.
RECURSIVE GCD(_, _)
GCD(a, b) == IF b = 0 THEN a ELSE GCD(b, a % b)

Abs(x) == IF x < 0 THEN -x ELSE x

Rat(n, d) == LET g == GCD(Abs(n), d) IN <<n \div g, d \div g>>

FromInt(v) == <<v, 1>>

RatAdd(p, q) == Rat(p[1] * q[2] + q[1] * p[2], p[2] * q[2])

RatLess(p, q) == p[1] * q[2] < q[1] * p[2]

\* ----------------------------------------------------------- Python dict
\* A dict keeps its keys in insertion order: keys is that order, vals the
\* mapping.  The values of the dicts of this notebook are list references.
EmptyDict == [keys |-> <<>>, vals |-> <<>>]

DictHas(d, k) == k \in Range(d.keys)

DictSet(d, k, v) ==
    IF DictHas(d, k)
    THEN [d EXCEPT !.vals[k] = v]
    ELSE [keys |-> Append(d.keys, k), vals |-> (k :> v) @@ d.vals]

\* ------------------------------------------------------------ the frames
\* The column names of the preprocessed frame of a file with k feature
\* columns left after remove_redundant_features.
FeatureName(j) == 10 + j

Columns(k) == [j \in 1..k |-> FeatureName(j)]

\* No frame: the value of a local that holds no frame.
NoFrame == [split |-> 0, part |-> "none"]

\* train_test_split(dataset_preprocessed, labels, test_size=0.2): the two
\* partitions of the split drawn by call number `serial`.
train_test_split(serial) ==
    [train |-> [split |-> serial, part |-> "train"],
     test  |-> [split |-> serial, part |-> "test"]]

\* ----------------------------------------------- drop_feature_experiment
\* feature_names = X_train.columns.tolist(): a new list with the column names.
columns_tolist(cols) == cols

\* feature_drop_iterations = {feature: [] for feature in X_train.columns}:
\* one new empty list per column; the lists take the references base + 1,
\* base + 2, ... in column order.
AdoptedDropLists(cols, base) ==
    [keys |-> cols,
     vals |-> [f \in Range(cols) |->
                 IF DictHas(feature_drop_counts, f)
                 THEN feature_drop_counts.vals[f]
                 ELSE base + IndexOf(cols, f)]]

\* One list object under every key, as dict.fromkeys(X_train.columns, []).
SharedDropList(cols, base) ==
    [keys |-> cols, vals |-> [f \in Range(cols) |-> base + 1]]

\* Line 768, {feature: [] for feature in X_train.columns}: a dict with a new
\* empty list per column.
new_feature_drop_iterations(cols, base) ==
    [keys |-> cols, vals |-> [f \in Range(cols) |-> base + IndexOf(cols, f)]]

\* while len(feature_names) >= 1
WhileAtLeastTwo(names) == Len(names) >= 2

while_condition(names) == Len(names) >= 1

\* What multisplit_avg_random_forest_fit_predict can return for a frame with
\* the columns `names`: two averaged scores and one averaged importance per
\* column, in column order.  The scores only reach `results` and the
\* printout, so one value stands for them.
multisplit_results(names) ==
    [training_loss      : {1},
     validation_loss    : {1},
     feature_importance : [1..Len(names) -> 0..MaxImportance]]

\* n_dataset_iterations=5 of the call in drop_feature_experiment.
n_dataset_iterations == 5

\* train_test_split called once, before the loop over the dataset iterations.
ReusedSplit(base, n) == [k \in 1..n |-> base + 1]

\* Lines 674-677: every dataset iteration of the multi-split averaging draws
\* a new split of the frame it was given; `base` splits were drawn before.
\* The serial numbers of the splits the n iterations draw, in call order.
RECURSIVE local_splits(_, _)
local_splits(base, n) ==
    IF n = 0 THEN <<>> ELSE Append(local_splits(base, n - 1), base + n)

\* np.argmin: the position of the first occurrence of the minimum.
ArgminLast(v) ==
    CHOOSE p \in DOMAIN v :
        /\ v[p] = Min(Range(v))
        /\ \A q \in DOMAIN v : q > p => v[q] # v[p]

Argmax(v) ==
    CHOOSE p \in DOMAIN v :
        /\ \A q \in DOMAIN v : v[q] <= v[p]
        /\ \A q \in DOMAIN v : q < p => v[q] # v[p]

np_argmin(v) ==
    CHOOSE p \in DOMAIN v :
        /\ v[p] = Min(Range(v))
        /\ \A q \in DOMAIN v : q < p => v[q] # v[p]

\* Removal that fills the hole with the last name of the list.
SwapRemove(s, x) ==
    LET p == IndexOf(s, x)
    IN  [j \in 1..(Len(s) - 1) |-> IF j = p THEN s[Len(s)] ELSE s[j]]

\* list.remove(x): the list without the first occurrence of x.
list_remove(s, x) ==
    LET p == IndexOf(s, x)
    IN  [j \in 1..(Len(s) - 1) |-> IF j < p THEN s[j] ELSE s[j + 1]]

\* The value appended to the dropped feature's list: len(feature_names),
\* taken after the removal.
LenBeforeRemoval(names_after) == Len(names_after) + 1

recorded_count(names_after) == Len(names_after)

\* Lines 759-768: load and preprocess the file, split it, create the locals.
StartRun ==
    /\ pc = "agg_loop"
    /\ i < n_runs
    /\ LET parts == train_test_split(n_splits + 1)
           base  == Len(heap) + 1
       IN  /\ n_splits' = n_splits + 1
           /\ X_train' = parts.train
           /\ X_test' = parts.test
           /\ results' = <<>>
           /\ heap' = heap \o <<columns_tolist(columns)>>
                           \o [j \in 1..Len(columns) |-> <<>>]
           /\ feature_names' = base
           /\ feature_drop_iterations' = new_feature_drop_iterations(columns, base)
    /\ fitted' = <<>>
    /\ dropped' = <<>>
    /\ partitions' = <<>>
    /\ pc' = "while"
    /\ UNCHANGED <<columns, n_runs, i, feature_drop_counts, curr_feature_drop_iterations,
                   training_loss, validation_loss, feature_importances,
                   least_important_feature, features_sorted, drop_counts_sorted,
                   run_log, dominant>>
    /\ UNCHANGED <<stab_vars, pre_vars, multi_vars, kmer_vars, sh_vars, run_vars, load_vars>>

\* Lines 770-794: one round of the while loop.
Round ==
    /\ pc = "while"
    /\ while_condition(heap[feature_names])
    \* the multi-split averaging draws its local splits from the frame it is given
    /\ n_splits' = n_splits + n_dataset_iterations
    /\ partitions' = Append(partitions,
                            [X_train |-> X_train,
                             splits  |-> local_splits(n_splits, n_dataset_iterations)])
    /\ \E r \in multisplit_results(heap[feature_names]) :
        LET names  == heap[feature_names]
            imp    == r.feature_importance
            least  == names[np_argmin(imp)]
            after  == list_remove(names, least)
            ref    == feature_drop_iterations.vals[least]
            heap1  == [heap EXCEPT ![feature_names] = after]
        IN  /\ training_loss' = r.training_loss
            /\ validation_loss' = r.validation_loss
            /\ feature_importances' = imp
            \* results.append((training_loss, validation_loss, feature_names)):
            \* the tuple holds the list object, not a copy of it
            /\ results' = Append(results, <<r.training_loss, r.validation_loss, feature_names>>)
            /\ least_important_feature' = least
            /\ heap' = [heap1 EXCEPT ![ref] = Append(@, recorded_count(after))]
            /\ fitted' = Append(fitted, names)
            /\ dropped' = Append(dropped, least)
            /\ dominant' = {f \in dominant :
                              f \in Range(names) =>
                                  \A q \in DOMAIN names :
                                      names[q] # f => imp[q] < imp[IndexOf(names, f)]}
    /\ UNCHANGED <<pc, columns, n_runs, i, feature_drop_counts,
                   curr_feature_drop_iterations, X_train, X_test, feature_names,
                   feature_drop_iterations, features_sorted, drop_counts_sorted, run_log>>
    /\ UNCHANGED <<stab_vars, pre_vars, multi_vars, kmer_vars, sh_vars, run_vars, load_vars>>

\* Line 796 and line 841: the loop ends, the call returns its dict to
\* avg_drop_feature_experiment and its locals are gone.
Return ==
    /\ pc = "while"
    /\ ~while_condition(heap[feature_names])
    /\ curr_feature_drop_iterations' = feature_drop_iterations
    /\ run_log' = Append(run_log,
                         [recorded |-> [f \in Range(feature_drop_iterations.keys) |->
                                           heap[feature_drop_iterations.vals[f]]],
                          round    |-> [f \in Range(feature_drop_iterations.keys) |->
                                           IF f \in Range(dropped)
                                           THEN IndexOf(dropped, f) ELSE 0]])
    /\ X_train' = NoFrame
    /\ X_test' = NoFrame
    /\ results' = <<>>
    /\ feature_names' = 0
    /\ feature_drop_iterations' = EmptyDict
    /\ training_loss' = 0
    /\ validation_loss' = 0
    /\ feature_importances' = <<>>
    /\ least_important_feature' = 0
    /\ pc' = "merge"
    /\ UNCHANGED <<columns, heap, n_splits, n_runs, i, feature_drop_counts,
                   features_sorted, drop_counts_sorted, fitted, dropped, partitions,
                   dominant>>
    /\ UNCHANGED <<stab_vars, pre_vars, multi_vars, kmer_vars, sh_vars, run_vars, load_vars>>

\* ------------------------------------------- avg_drop_feature_experiment
\* Lines 844-847, one item of curr_feature_drop_iterations: extend the list
\* feature_drop_counts already holds for the feature, or else store the
\* run's own list object under the feature.
OverwriteItem(feature, iteration, acc, h) ==
    [acc |-> DictSet(acc, feature, iteration), heap |-> h]

PrependItem(feature, iteration, acc, h) ==
    IF DictHas(acc, feature)
    THEN [acc |-> acc, heap |-> [h EXCEPT ![acc.vals[feature]] = h[iteration] \o @]]
    ELSE [acc |-> DictSet(acc, feature, iteration), heap |-> h]

merge_item(feature, iteration, acc, h) ==
    IF DictHas(acc, feature)
    THEN [acc |-> acc, heap |-> [h EXCEPT ![acc.vals[feature]] = @ \o h[iteration]]]
    ELSE [acc |-> DictSet(acc, feature, iteration), heap |-> h]

\* Line 843: for feature, iteration in curr_feature_drop_iterations.items()
RECURSIVE merge_items(_, _, _, _)
merge_items(keys, cur, acc, h) ==
    IF keys = <<>>
    THEN [acc |-> acc, heap |-> h]
    ELSE LET step == merge_item(Head(keys), cur.vals[Head(keys)], acc, h)
         IN  merge_items(Tail(keys), cur, step.acc, step.heap)

\* Lines 843-847 and the next turn of the for loop of line 838.
Merge ==
    /\ pc = "merge"
    /\ LET m == merge_items(curr_feature_drop_iterations.keys,
                            curr_feature_drop_iterations, feature_drop_counts, heap)
       IN  /\ feature_drop_counts' = m.acc
           /\ heap' = m.heap
    /\ i' = i + 1
    /\ pc' = "agg_loop"
    /\ UNCHANGED <<columns, n_splits, n_runs, curr_feature_drop_iterations, X_train, X_test,
                   results, feature_names, feature_drop_iterations, training_loss,
                   validation_loss, feature_importances, least_important_feature,
                   features_sorted, drop_counts_sorted, fitted, dropped, partitions,
                   run_log, dominant>>
    /\ UNCHANGED <<stab_vars, pre_vars, multi_vars, kmer_vars, sh_vars, run_vars, load_vars>>

\* Line 849 (and line 858): range(n_runs) is exhausted, the dict is returned.
Finish ==
    /\ pc = "agg_loop"
    /\ i >= n_runs
    /\ pc' = "returned"
    /\ UNCHANGED <<columns, heap, n_splits, n_runs, i, feature_drop_counts,
                   curr_feature_drop_iterations, X_train, X_test, results, feature_names,
                   feature_drop_iterations, training_loss, validation_loss,
                   feature_importances, least_important_feature, features_sorted,
                   drop_counts_sorted, fitted, dropped, partitions, run_log, dominant>>
    /\ UNCHANGED <<stab_vars, pre_vars, multi_vars, kmer_vars, sh_vars, run_vars, load_vars>>

\* ------------------------------------------------------- the ranking cell
\* The ascending sort of a list of integers.
SortInts(s) ==
    LET pos(j) == 1 + Cardinality({m \in DOMAIN s : s[m] < s[j] \/ (s[m] = s[j] /\ m < j)})
    IN  [p \in DOMAIN s |-> s[CHOOSE j \in DOMAIN s : pos(j) = p]]

\* np.median: the middle value of the sorted list, the mean of the two
\* middle values when the length is even.
np_median(s) ==
    LET t == SortInts(s)
        n == Len(s)
    IN  IF n % 2 = 1
        THEN FromInt(t[(n + 1) \div 2])
        ELSE Rat(t[n \div 2] + t[n \div 2 + 1], 2)

\* sorted(feature_drop_counts.items(), key=lambda item: np.median(item[1])):
\* the features in ascending order of the median of their list; sorted() is
\* stable, so features with equal medians keep the dict's order.
SortedDescending(d, h) ==
    LET ks     == d.keys
        key(j) == np_median(h[d.vals[ks[j]]])
        pos(j) == 1 + Cardinality({m \in DOMAIN ks :
                        RatLess(key(j), key(m)) \/ (key(m) = key(j) /\ m < j)})
    IN  [p \in DOMAIN ks |-> ks[CHOOSE j \in DOMAIN ks : pos(j) = p]]

sorted_by_median(d, h) ==
    LET ks     == d.keys
        key(j) == np_median(h[d.vals[ks[j]]])
        pos(j) == 1 + Cardinality({m \in DOMAIN ks :
                        RatLess(key(m), key(j)) \/ (key(m) = key(j) /\ m < j)})
    IN  [p \in DOMAIN ks |-> ks[CHOOSE j \in DOMAIN ks : pos(j) = p]]

\* Lines 870-873.  zip(*[]) yields nothing, so unpacking it into two names
\* raises ValueError when the dict is empty.
Rank ==
    /\ pc = "returned"
    /\ IF feature_drop_counts.keys = <<>>
       THEN /\ pc' = "rank_error"
            /\ UNCHANGED <<features_sorted, drop_counts_sorted>>
       ELSE /\ pc' = "ranked"
            /\ features_sorted' = sorted_by_median(feature_drop_counts, heap)
            /\ drop_counts_sorted' =
                   [p \in DOMAIN feature_drop_counts.keys |->
                       heap[feature_drop_counts.vals[
                           sorted_by_median(feature_drop_counts, heap)[p]]]]
    /\ UNCHANGED <<columns, heap, n_splits, n_runs, i, feature_drop_counts,
                   curr_feature_drop_iterations, X_train, X_test, results, feature_names,
                   feature_drop_iterations, training_loss, validation_loss,
                   feature_importances, least_important_feature, fitted, dropped, partitions,
                   run_log, dominant>>
    /\ UNCHANGED <<stab_vars, pre_vars, multi_vars, kmer_vars, sh_vars, run_vars, load_vars>>

\* ----------------------------------------- avg_random_forest_fit_predict
RatDivInt(p, n) == Rat(p[1], p[2] * n)

\* What one call of random_forest_fit_predict can return on a frame with
\* ncols columns: the training score, the validation loss and one
\* importance per column, in column order (lines 485-494).
random_forest_fit_predict(ncols) ==
    [training_loss      : {FromInt(v) : v \in 0..1},
     validation_loss    : {FromInt(v) : v \in 0..1},
     feature_importance : [1..ncols -> {FromInt(v) : v \in 0..MaxImportance}]]

\* np.zeros(X_train.shape[1])
np_zeros(ncols) == [c \in 1..ncols |-> FromInt(0)]

\* total_feature_importances = ... in place of +=
VectorAssign(total, v) == v

\* total_feature_importances += feature_importances[...].to_list()
vector_add(total, v) == [c \in DOMAIN total |-> RatAdd(total[c], v[c])]

\* Lines 583-590: the keyword arguments of the random_forest_fit_predict
\* call, taken from the function's own parameters.
fit_arguments(args) ==
    [X_train |-> args.X_train, X_test |-> args.X_test,
     y_train |-> args.y_train, y_test |-> args.y_test,
     n_estimators |-> args.n_estimators, max_depth |-> args.max_depth]

\* No call: the value of st_args when the function is not entered.
NoArguments ==
    [X_train |-> NoFrame, X_test |-> NoFrame, y_train |-> NoFrame, y_test |-> NoFrame,
     n_estimators |-> 0, max_depth |-> 0]

\* Lines 619-631: the arguments of the call cell; the labels of a partition
\* are identified by the partition.
call_arguments ==
    LET parts == train_test_split(1)
    IN  [X_train |-> parts.train, X_test |-> parts.test,
         y_train |-> parts.train, y_test |-> parts.test,
         n_estimators |-> 50, max_depth |-> 1]

\* total / n_iterations (lines 596-598)
DivideByNext(total, n) == RatDivInt(total, n + 1)

average(total, n) == RatDivInt(total, n)

\* Lines 578-580.
StabCall ==
    /\ st_pc = "call"
    /\ total_training_loss' = FromInt(0)
    /\ total_validation_loss' = FromInt(0)
    /\ total_feature_importances' = np_zeros(st_columns)
    /\ st_it' = 0
    /\ st_pc' = "loop"
    /\ UNCHANGED <<n_iterations, st_columns, fit_log, st_result, st_args, fit_calls>>
    /\ UNCHANGED <<elim_vars, pre_vars, multi_vars, kmer_vars, sh_vars, run_vars, load_vars>>

\* Lines 582-594: one turn of the for loop.
StabIterate ==
    /\ st_pc = "loop"
    /\ st_it < n_iterations
    /\ fit_calls' = Append(fit_calls, fit_arguments(st_args))
    /\ \E fit \in random_forest_fit_predict(st_columns) :
        /\ fit_log' = Append(fit_log, fit)
        /\ total_training_loss' = RatAdd(total_training_loss, fit.training_loss)
        /\ total_validation_loss' = RatAdd(total_validation_loss, fit.validation_loss)
        /\ total_feature_importances' =
               vector_add(total_feature_importances, fit.feature_importance)
    /\ st_it' = st_it + 1
    /\ UNCHANGED <<st_pc, n_iterations, st_columns, st_result, st_args>>
    /\ UNCHANGED <<elim_vars, pre_vars, multi_vars, kmer_vars, sh_vars, run_vars, load_vars>>

\* Lines 596-607: the averages; line 596 raises ZeroDivisionError when
\* n_iterations is 0.
StabReturn ==
    /\ st_pc = "loop"
    /\ st_it >= n_iterations
    /\ IF n_iterations = 0
       THEN /\ st_pc' = "raised"
            /\ st_result' = [st_result EXCEPT !.raised = "ZeroDivisionError"]
       ELSE /\ st_pc' = "returned"
            /\ st_result' =
                   [raised |-> "",
                    training_loss |-> average(total_training_loss, n_iterations),
                    validation_loss |-> average(total_validation_loss, n_iterations),
                    feature_importance |->
                        [c \in DOMAIN total_feature_importances |->
                            average(total_feature_importances[c], n_iterations)]]
    /\ UNCHANGED <<n_iterations, st_columns, st_it, total_training_loss,
                   total_validation_loss, total_feature_importances, fit_log,
                   st_args, fit_calls>>
    /\ UNCHANGED <<elim_vars, pre_vars, multi_vars, kmer_vars, sh_vars, run_vars, load_vars>>

\* ----------------------------------------------------------- preprocessing
\* A frame (pd.DataFrame) is an object: frames[r] is the value of the frame
\* with reference r.  Its value has the column names in column order, the
\* cells of every column in row order and, per column, the square of the
\* unit the cells are written in: the number a cell stands for is
\* cell / sqrt(scale), so that a z-score (value - mean) / std is kept exactly
\* as the fraction value - mean with the scale std * std.
NaN == <<0, 0>>

isna(v) == v[2] = 0

RatSub(p, q) == Rat(p[1] * q[2] - q[1] * p[2], p[2] * q[2])

RatMul(p, q) == Rat(p[1] * q[1], p[2] * q[2])

dropna(s) == SelectSeq(s, LAMBDA v : ~isna(v))

RECURSIVE sort_values(_)
sort_values(s) ==
    IF s = <<>> THEN <<>>
    ELSE LET j == CHOOSE j \in DOMAIN s : \A m \in DOMAIN s : ~RatLess(s[m], s[j])
         IN  <<s[j]>> \o sort_values(SubSeq(s, 1, j - 1) \o SubSeq(s, j + 1, Len(s)))

RECURSIVE sum_values(_)
sum_values(s) == IF s = <<>> THEN FromInt(0) ELSE RatAdd(s[1], sum_values(Tail(s)))

\* Series.mean(): the mean of the available values, NaN when there is none.
column_mean(col) ==
    LET a == dropna(col)
    IN  IF a = <<>> THEN NaN ELSE RatDivInt(sum_values(a), Len(a))

\* dataset.fillna(dataset.mean())
ColumnMean(col) == column_mean(col)

\* dataset.median(), one column: the median of the available values (the
\* mean of the two middle values when their number is even), NaN when the
\* column has no available value.
column_median(col) ==
    LET a == sort_values(dropna(col))
        m == Len(a)
    IN  IF m = 0 THEN NaN
        ELSE IF m % 2 = 1 THEN a[(m + 1) \div 2]
        ELSE RatDivInt(RatAdd(a[m \div 2], a[m \div 2 + 1]), 2)

\* DataFrame.fillna(medians): a missing cell takes the value given for its
\* column; fillna with NaN leaves the cell missing.
fillna(frame) ==
    [frame EXCEPT !.cells =
        [c \in DOMAIN frame.cells |->
            LET fill == column_median(frame.cells[c])
            IN  [r \in DOMAIN frame.cells[c] |->
                    IF isna(frame.cells[c][r]) THEN fill ELSE frame.cells[c][r]]]]

\* dataset.fillna(dataset.median(), inplace=True); return dataset
ImputeInPlace(h, ref) == [frames |-> [h EXCEPT ![ref] = fillna(h[ref])], ref |-> ref]

\* impute_dataset (lines 149-150): fillna returns a new frame.
impute_dataset(h, ref) == [frames |-> Append(h, fillna(h[ref])), ref |-> Len(h) + 1]

\* The population variance of the available values of a column.
column_var(col) ==
    LET a == dropna(col)
        mean == column_mean(col)
        sq == [j \in DOMAIN a |-> RatMul(RatSub(a[j], mean), RatSub(a[j], mean))]
    IN  RatDivInt(sum_values(sq), Len(a))

\* standardize_dataset (lines 212-213, body left to the reader): every value
\* becomes (value - column_mean) / column_std.  A missing cell stays missing;
\* a column without spread is left at zero.
standardize_column(col) ==
    IF dropna(col) = <<>> THEN [cells |-> col, scale |-> FromInt(1)]
    ELSE LET mean == column_mean(col)
             var == column_var(col)
             dev == [r \in DOMAIN col |-> IF isna(col[r]) THEN NaN ELSE RatSub(col[r], mean)]
         IN  [cells |-> dev, scale |-> IF var = FromInt(0) THEN FromInt(1) ELSE var]

standardize_dataset(h, ref) ==
    LET frame == h[ref]
        new == [columns |-> frame.columns,
                cells |-> [c \in DOMAIN frame.cells |-> standardize_column(frame.cells[c]).cells],
                scale |-> [c \in DOMAIN frame.cells |-> standardize_column(frame.cells[c]).scale]]
    IN  [frames |-> Append(h, new), ref |-> Len(h) + 1]

label_name == "ldl_cholesterin_reduction"

\* The list without the label: the label stays among the features.
RedundantWithoutLabel ==
    <<"arterial_stiffness", "waist_hip_ratio", "diet_energy", "diet_mediterenian_score",
      "blood_pressure_systolic", "diet_carb", "diet_unsaturated_fat",
      "blood_ldl_cholesterol", "blood_hdl_cholesterol">>

\* Lines 279-290.
redundant_features ==
    <<"arterial_stiffness", "waist_hip_ratio", "diet_energy", "diet_mediterenian_score",
      "blood_pressure_systolic", "diet_carb", "diet_unsaturated_fat",
      "blood_ldl_cholesterol", "blood_hdl_cholesterol", "ldl_cholesterin_reduction">>

\* A frame restricted to the columns `cols` (a new object's value).
frame_of(frame, cols) ==
    [columns |-> cols,
     cells |-> [c \in Range(cols) |-> frame.cells[c]],
     scale |-> [c \in Range(cols) |-> frame.scale[c]]]

\* remove_redundant_features (lines 274-294): the attribute access fails on
\* a frame without the label column, drop fails on a frame that lacks a
\* listed name; otherwise the label column and a new frame are returned.
remove_redundant_features(h, ref) ==
    LET frame == h[ref]
        present == Range(frame.columns)
        kept == SelectSeq(frame.columns, LAMBDA c : c \notin Range(redundant_features))
    IN  IF label_name \notin present
        THEN [raised |-> "AttributeError", frames |-> h, labels |-> 0, dataset_wo_redundancy |-> 0]
        ELSE IF ~(Range(redundant_features) \subseteq present)
        THEN [raised |-> "KeyError", frames |-> h, labels |-> 0, dataset_wo_redundancy |-> 0]
        ELSE [raised |-> "",
              frames |-> h \o <<frame_of(frame, <<label_name>>), frame_of(frame, kept)>>,
              labels |-> Len(h) + 1,
              dataset_wo_redundancy |-> Len(h) + 2]

\* preprocess_dataset (lines 303-309) as a function of the value of the frame
\* it is given: the value of the feature frame it returns.  Only for frames
\* that have every listed column.
preprocess_dataset(frame) ==
    LET imputed == impute_dataset(<<frame>>, 1)
        standardized == standardize_dataset(imputed.frames, imputed.ref)
        removed == remove_redundant_features(standardized.frames, standardized.ref)
    IN  removed.frames[removed.dataset_wo_redundancy]

\* train_test_split(..., test_size=0.2) on a frame with n rows (lines
\* 762-764): the sets of rows that can make up the test partition, which has
\* ceil(0.2 * n) rows.
test_partitions(n) == {S \in SUBSET (1..n) : Cardinality(S) = (n + 4) \div 5}

\* preprocess_dataset, line 304.
Impute ==
    /\ pre_pc \in {"cell", "returned"}
    /\ n_calls < MaxCalls
    /\ n_calls' = n_calls + 1
    /\ LET out == impute_dataset(frames, dataset)
       IN  /\ frames' = out.frames
           /\ dataset_imputed' = out.ref
    /\ dataset_standardized' = 0
    /\ pre_pc' = "imputed"
    /\ UNCHANGED <<dataset, raw, labels, dataset_preprocessed>>
    /\ UNCHANGED <<elim_vars, stab_vars, multi_vars, kmer_vars, sh_vars, run_vars, load_vars>>

\* preprocess_dataset, line 305.
Standardize ==
    /\ pre_pc = "imputed"
    /\ LET out == standardize_dataset(frames, dataset_imputed)
       IN  /\ frames' = out.frames
           /\ dataset_standardized' = out.ref
    /\ pre_pc' = "standardized"
    /\ UNCHANGED <<dataset, raw, dataset_imputed, labels, dataset_preprocessed, n_calls>>
    /\ UNCHANGED <<elim_vars, stab_vars, multi_vars, kmer_vars, sh_vars, run_vars, load_vars>>

\* preprocess_dataset, lines 306-309, and the assignment of the calling cell
\* (line 319); an exception leaves the cell's names as they were.
RemoveRedundant ==
    /\ pre_pc = "standardized"
    /\ LET out == remove_redundant_features(frames, dataset_standardized)
       IN  /\ frames' = out.frames
           /\ IF out.raised = ""
              THEN /\ labels' = out.labels
                   /\ dataset_preprocessed' = out.dataset_wo_redundancy
                   /\ pre_pc' = "returned"
              ELSE /\ UNCHANGED <<labels, dataset_preprocessed>>
                   /\ pre_pc' = "raised"
    /\ UNCHANGED <<dataset, raw, dataset_imputed, dataset_standardized, n_calls>>
    /\ UNCHANGED <<elim_vars, stab_vars, multi_vars, kmer_vars, sh_vars, run_vars, load_vars>>

\* ------------------------------- multisplit_avg_random_forest_fit_predict
\* The multi-split averaging as drop_feature_experiment calls it in one
\* round, followed by the selection of the round.  A frame is given by its
\* column names; a pd.DataFrame of importances by its index and its values.

\* The frame as a whole, whatever the list of names.
AllColumns(frame_columns, names) == frame_columns

\* X_train[feature_names]: the listed columns, in the order of the list.
select_columns(frame_columns, names) == names

\* The lists the elimination can hold for a frame with the columns cols:
\* the non-empty sub-lists of cols, in column order.
active_lists(cols) ==
    {SelectSeq(cols, LAMBDA c : c \in S) : S \in (SUBSET Range(cols)) \ {{}}}

\* np.argmin on fractions: the position of the first occurrence of the minimum.
np_argmin_values(v) ==
    CHOOSE p \in DOMAIN v :
        /\ \A q \in DOMAIN v : ~RatLess(v[q], v[p])
        /\ \A q \in DOMAIN v : q < p => RatLess(v[p], v[q])

\* total_feature_importances / n, element by element (lines 598 and 697).
vector_average(total, n) == [c \in DOMAIN total |-> average(total[c], n)]

\* What a fit can return on a frame with ncols columns when the scores
\* are left aside: the forest scales its importances so that they add up to
\* one.
normalized_fits(ncols) ==
    {fit \in random_forest_fit_predict(ncols) :
        /\ fit.training_loss = FromInt(1)
        /\ fit.validation_loss = FromInt(1)
        /\ sum_values(fit.feature_importance) = FromInt(1)}

\* Lines 670-672: entry of the function with X_train[feature_names].
MultiCall ==
    /\ ms_pc = "call"
    /\ ms_X_train' = select_columns(ms_columns, ms_names)
    /\ ms_total' = np_zeros(Len(ms_X_train'))
    /\ ms_pc' = "split"
    /\ UNCHANGED <<ms_columns, ms_names, n_forest_iterations, ms_dataset_iterations,
                   ms_split, ms_fit, ms_inner_total, ms_result, ms_least, name_total>>
    /\ UNCHANGED <<elim_vars, stab_vars, pre_vars, kmer_vars, sh_vars, run_vars, load_vars>>

\* Lines 674-689 and 578-580: a dataset iteration draws a local split (which
\* keeps the columns) and enters avg_random_forest_fit_predict with it.
MultiSplit ==
    /\ ms_pc = "split"
    /\ ms_split < ms_dataset_iterations
    /\ ms_inner_total' = np_zeros(Len(ms_X_train))
    /\ ms_fit' = 0
    /\ ms_pc' = "fit"
    /\ UNCHANGED <<ms_columns, ms_names, ms_X_train, n_forest_iterations,
                   ms_dataset_iterations, ms_split, ms_total, ms_result, ms_least,
                   name_total>>
    /\ UNCHANGED <<elim_vars, stab_vars, pre_vars, kmer_vars, sh_vars, run_vars, load_vars>>

\* Lines 582-594: one fit on the local split; its j-th importance is that of
\* the j-th column of the frame it was fitted on (lines 489-492).
MultiFit ==
    /\ ms_pc = "fit"
    /\ ms_fit < n_forest_iterations
    /\ \E fit \in normalized_fits(Len(ms_X_train)) :
        /\ ms_inner_total' = vector_add(ms_inner_total, fit.feature_importance)
        /\ name_total' =
               [f \in DOMAIN name_total |->
                   IF f \in Range(ms_X_train)
                   THEN RatAdd(name_total[f], fit.feature_importance[IndexOf(ms_X_train, f)])
                   ELSE name_total[f]]
    /\ ms_fit' = ms_fit + 1
    /\ UNCHANGED <<ms_pc, ms_columns, ms_names, ms_X_train, n_forest_iterations,
                   ms_dataset_iterations, ms_split, ms_total, ms_result, ms_least>>
    /\ UNCHANGED <<elim_vars, stab_vars, pre_vars, kmer_vars, sh_vars, run_vars, load_vars>>

\* Lines 596-607 and 691-693: the averaging of the fits returns its frame of
\* averages and the dataset iteration adds its values, position by position.
MultiAccumulate ==
    /\ ms_pc = "fit"
    /\ ms_fit = n_forest_iterations
    /\ LET returned == [index  |-> ms_X_train,
                        values |-> vector_average(ms_inner_total, n_forest_iterations)]
       IN  ms_total' = vector_add(ms_total, returned.values)
    /\ ms_split' = ms_split + 1
    /\ ms_pc' = "split"
    /\ UNCHANGED <<ms_columns, ms_names, ms_X_train, n_forest_iterations,
                   ms_dataset_iterations, ms_fit, ms_inner_total, ms_result, ms_least,
                   name_total>>
    /\ UNCHANGED <<elim_vars, stab_vars, pre_vars, kmer_vars, sh_vars, run_vars, load_vars>>

\* Lines 695-706: the averages over the dataset iterations, indexed by the
\* columns of the frame the function was given.
MultiReturn ==
    /\ ms_pc = "split"
    /\ ms_split = ms_dataset_iterations
    /\ ms_result' = [index  |-> ms_X_train,
                     values |-> vector_average(ms_total, ms_dataset_iterations)]
    /\ ms_pc' = "returned"
    /\ UNCHANGED <<ms_columns, ms_names, ms_X_train, n_forest_iterations,
                   ms_dataset_iterations, ms_split, ms_fit, ms_inner_total, ms_total,
                   ms_least, name_total>>
    /\ UNCHANGED <<elim_vars, stab_vars, pre_vars, kmer_vars, sh_vars, run_vars, load_vars>>

\* Line 785: least_important_feature = feature_names[np.argmin(feature_importances)]
MultiSelect ==
    /\ ms_pc = "returned"
    /\ ms_least' = ms_names[np_argmin_values(ms_result.values)]
    /\ ms_pc' = "selected"
    /\ UNCHANGED <<ms_columns, ms_names, ms_X_train, n_forest_iterations,
                   ms_dataset_iterations, ms_split, ms_fit, ms_inner_total, ms_total,
                   ms_result, name_total>>
    /\ UNCHANGED <<elim_vars, stab_vars, pre_vars, kmer_vars, sh_vars, run_vars, load_vars>>

\* -------------------------------------------------------------- build_kmers
\* The gene-family notebook: a sequence is a string, modelled as the
\* sequence of its characters; a word is a string as well.

\* sequence[a : b] for 0 <= a <= b: the characters at the 0-based positions
\* a .. b - 1 that exist.
slice(s, a, b) == SubSeq(s, a + 1, IF b < Len(s) THEN b ELSE Len(s))

\* range(n) as the list of its values; empty for n <= 0.
range(n) == [j \in 1..(IF n > 0 THEN n ELSE 0) |-> j - 1]

\* The windows taken at the positions range(len(sequence) - k).
KmersWithoutLast(s, kk) ==
    [j \in DOMAIN range(Len(s) - kk) |->
        slice(s, range(Len(s) - kk)[j], range(Len(s) - kk)[j] + kk)]

\* build_kmers: [sequence[i : i + k] for i in range(len(sequence) - k + 1)]
build_kmers(s, kk) ==
    [j \in DOMAIN range(Len(s) - kk + 1) |->
        slice(s, range(Len(s) - kk + 1)[j], range(Len(s) - kk + 1)[j] + kk)]

\* The call build_kmers(sequence, k).
BuildKmers ==
    /\ km_pc = "call"
    /\ kmers' = build_kmers(sequence, km_k)
    /\ km_pc' = "returned"
    /\ UNCHANGED <<sequence, km_k>>
    /\ UNCHANGED <<elim_vars, stab_vars, pre_vars, multi_vars, sh_vars, run_vars, load_vars>>

\* ------------------------------------------------------ conda_env_export.sh
\* The script runs line by line.  The file system is a map from paths to
\* files; a path is a directory and a name, a file is absent or holds lines.
\* A line is the sequence of its pieces of text, so that "starts with
\* prefix" and "contains prefix" differ.
NoFile == [exists |-> FALSE, lines |-> <<>>]

File(lines) == [exists |-> TRUE, lines |-> lines]

Path(dir, name) == [dir |-> dir, name |-> name]

\* The test of line 4 without its else branch: the script never stops.
NeverExits(root) == FALSE

\* Line 4, [ -n "${git_root}" ]: the else branch is taken for the empty string.
git_root_missing(root) == root = ""

\* Line 3: git rev-parse --show-toplevel prints the root inside a repository
\* and nothing (its error message is discarded) outside of one.
git_rev_parse(inside) == IF inside THEN "/repo" ELSE ""

\* grep "prefix": the lines that contain the text anywhere.
ContainsPrefix(line) == \E p \in DOMAIN line : line[p] = "prefix"

\* The pattern "^prefix": the line begins with the text prefix.
matches_pattern(line) == line # <<>> /\ line[1] = "prefix"

\* Line 13, grep --invert-match: the lines that do not match, in order.
grep_invert_match(lines) == SelectSeq(lines, LAMBDA line : ~matches_pattern(line))

\* set -e: a failing command ends the script.
ErrExit(status) == status = 0

\* The script has no `set -e`: the next line runs whatever the exit status
\* of a command was.
runs_next_line(status) == TRUE

\* Lines 3-9.
GitCheck ==
    /\ sh_pc = "start"
    /\ git_root' = git_rev_parse(in_repo)
    /\ IF git_root_missing(git_root')
       THEN /\ sh_stderr' = Append(sh_stderr, "Error: Git repository root not found.")
            /\ exit_status' = 1
            /\ sh_pc' = "exited"
            /\ UNCHANGED sh_stdout
       ELSE /\ sh_stdout' = Append(sh_stdout, "Git repository root found")
            /\ sh_pc' = "export"
            /\ UNCHANGED <<sh_stderr, exit_status>>
    /\ UNCHANGED <<in_repo, conda_ok, export_lines, fs, fs_before, conda_runs, last_status>>
    /\ UNCHANGED <<elim_vars, stab_vars, pre_vars, multi_vars, kmer_vars, run_vars, load_vars>>

\* Lines 11-12: the redirection creates or truncates the file, conda writes
\* its lines into it; a failing conda leaves what it wrote before it failed.
CondaExport ==
    /\ sh_pc = "export"
    /\ conda_runs' = conda_runs + 1
    /\ fs' = [fs EXCEPT ![Path(git_root, "environment.yml")] = File(export_lines)]
    /\ last_status' = IF conda_ok THEN 0 ELSE 1
    /\ IF runs_next_line(last_status')
       THEN sh_pc' = "grep" /\ UNCHANGED exit_status
       ELSE sh_pc' = "exited" /\ exit_status' = last_status'
    /\ UNCHANGED <<in_repo, conda_ok, export_lines, git_root, fs_before, sh_stdout, sh_stderr>>
    /\ UNCHANGED <<elim_vars, stab_vars, pre_vars, multi_vars, kmer_vars, run_vars, load_vars>>

\* Line 13: grep exits with 1 when it selects no line.
GrepPrefix ==
    /\ sh_pc = "grep"
    /\ LET kept == grep_invert_match(fs[Path(git_root, "environment.yml")].lines)
       IN  /\ fs' = [fs EXCEPT ![Path(git_root, "environment.yml.tmp")] = File(kept)]
           /\ last_status' = IF kept = <<>> THEN 1 ELSE 0
    /\ IF runs_next_line(last_status')
       THEN sh_pc' = "mv" /\ UNCHANGED exit_status
       ELSE sh_pc' = "exited" /\ exit_status' = last_status'
    /\ UNCHANGED <<in_repo, conda_ok, export_lines, git_root, fs_before, conda_runs,
                   sh_stdout, sh_stderr>>
    /\ UNCHANGED <<elim_vars, stab_vars, pre_vars, multi_vars, kmer_vars, run_vars, load_vars>>

\* Line 14.
MoveTmp ==
    /\ sh_pc = "mv"
    /\ fs' = [fs EXCEPT ![Path(git_root, "environment.yml")] =
                            fs[Path(git_root, "environment.yml.tmp")],
                        ![Path(git_root, "environment.yml.tmp")] = NoFile]
    /\ last_status' = 0
    /\ sh_pc' = "echo"
    /\ UNCHANGED <<in_repo, conda_ok, export_lines, git_root, fs_before, conda_runs,
                   sh_stdout, sh_stderr, exit_status>>
    /\ UNCHANGED <<elim_vars, stab_vars, pre_vars, multi_vars, kmer_vars, run_vars, load_vars>>

\* Line 15 and the end of the script: its status is that of the last command.
EchoUpdated ==
    /\ sh_pc = "echo"
    /\ sh_stdout' = Append(sh_stdout, "Updated environment file")
    /\ last_status' = 0
    /\ exit_status' = 0
    /\ sh_pc' = "exited"
    /\ UNCHANGED <<in_repo, conda_ok, export_lines, git_root, fs, fs_before, conda_runs,
                   sh_stderr>>
    /\ UNCHANGED <<elim_vars, stab_vars, pre_vars, multi_vars, kmer_vars, run_vars, load_vars>>

\* ------------------------------------------- the calls of one elimination run
\* drop_feature_experiment with the two functions it calls into, followed
\* call by call: which frame every train_test_split is given and which
\* partitions every random_forest_fit_predict is given.  A frame is known by
\* the split that made it and the side of the split it is; the columns a
\* round selects do not change its rows.
Preprocessed == [split |-> 0, part |-> "dataset"]

\* The other partition of the outer split.
PassesTestPartition(outer) == outer.test

\* Line 772, X_train=X_train[feature_names]: the rows of the outer training
\* partition.
multisplit_frame(outer) == outer.train

\* A loop that runs once more than range(n) has values.
RangeInclusive(done, n) == done <= n

\* for _ in range(n): another iteration follows the `done` finished ones.
range_has_next(done, n) == done < n

\* A division that yields a value for every divisor.
NeverRaises(n) == FALSE

\* total / n with the totals still the integer 0: ZeroDivisionError for n = 0.
divides_by_zero(n) == n = 0

\* Lines 759-768: the outer split and the list of all the feature names.
RunSplit ==
    /\ rn_pc = "start"
    /\ rn_outer' = train_test_split(Len(split_log) + 1)
    /\ split_log' = Append(split_log, Preprocessed)
    /\ rn_pc' = "while"
    /\ UNCHANGED <<rn_features, rn_num_features, rn_forest_iterations,
                   rn_dataset_iterations, rn_given, rn_local, rn_d, rn_f, trainer_log>>
    /\ UNCHANGED <<elim_vars, stab_vars, pre_vars, multi_vars, kmer_vars, sh_vars, load_vars>>

\* Lines 770-780 and 670-672: a round calls the multi-split averaging.
RunCall ==
    /\ rn_pc = "while"
    /\ while_condition(rn_features)
    /\ rn_given' = multisplit_frame(rn_outer)
    /\ rn_d' = 0
    /\ rn_pc' = "dataset_loop"
    /\ UNCHANGED <<rn_features, rn_num_features, rn_forest_iterations,
                   rn_dataset_iterations, rn_outer, rn_local, rn_f, split_log,
                   trainer_log>>
    /\ UNCHANGED <<elim_vars, stab_vars, pre_vars, multi_vars, kmer_vars, sh_vars, load_vars>>

\* Lines 674-689 and 578-580: a dataset iteration splits the frame it was
\* given and calls the averaging of the fits with the two partitions.
RunLocalSplit ==
    /\ rn_pc = "dataset_loop"
    /\ range_has_next(rn_d, rn_dataset_iterations)
    /\ rn_local' = train_test_split(Len(split_log) + 1)
    /\ split_log' = Append(split_log, rn_given)
    /\ rn_f' = 0
    /\ rn_pc' = "forest_loop"
    /\ UNCHANGED <<rn_features, rn_num_features, rn_forest_iterations,
                   rn_dataset_iterations, rn_outer, rn_given, rn_d, trainer_log>>
    /\ UNCHANGED <<elim_vars, stab_vars, pre_vars, multi_vars, kmer_vars, sh_vars, load_vars>>

\* Lines 582-594: a forest iteration calls random_forest_fit_predict with the
\* partitions the averaging was given.
RunFit ==
    /\ rn_pc = "forest_loop"
    /\ range_has_next(rn_f, rn_forest_iterations)
    /\ trainer_log' = Append(trainer_log, [X_train |-> rn_local.train,
                                           X_test  |-> rn_local.test])
    /\ rn_f' = rn_f + 1
    /\ UNCHANGED <<rn_pc, rn_features, rn_num_features, rn_forest_iterations,
                   rn_dataset_iterations, rn_outer, rn_given, rn_local, rn_d, split_log>>
    /\ UNCHANGED <<elim_vars, stab_vars, pre_vars, multi_vars, kmer_vars, sh_vars, load_vars>>

\* Lines 596-607 and 691-693: the averaging of the fits divides its totals by
\* n_iterations and returns; the dataset iteration adds the averages.
RunForestAverage ==
    /\ rn_pc = "forest_loop"
    /\ ~range_has_next(rn_f, rn_forest_iterations)
    /\ IF divides_by_zero(rn_forest_iterations)
       THEN rn_pc' = "raised" /\ UNCHANGED rn_d
       ELSE rn_pc' = "dataset_loop" /\ rn_d' = rn_d + 1
    /\ UNCHANGED <<rn_features, rn_num_features, rn_forest_iterations,
                   rn_dataset_iterations, rn_outer, rn_given, rn_local, rn_f, split_log,
                   trainer_log>>
    /\ UNCHANGED <<elim_vars, stab_vars, pre_vars, multi_vars, kmer_vars, sh_vars, load_vars>>

\* Lines 695-706 and 782-787: the multi-split averaging divides its totals by
\* n_dataset_iterations and returns; the round removes the feature at the
\* position of the smallest importance, which can be any position.
RunDatasetAverage ==
    /\ rn_pc = "dataset_loop"
    /\ ~range_has_next(rn_d, rn_dataset_iterations)
    /\ IF divides_by_zero(rn_dataset_iterations)
       THEN rn_pc' = "raised" /\ UNCHANGED rn_features
       ELSE /\ rn_pc' = "while"
            /\ \E p \in DOMAIN rn_features :
                   rn_features' = list_remove(rn_features, rn_features[p])
    /\ UNCHANGED <<rn_num_features, rn_forest_iterations, rn_dataset_iterations,
                   rn_outer, rn_given, rn_local, rn_d, rn_f, split_log, trainer_log>>
    /\ UNCHANGED <<elim_vars, stab_vars, pre_vars, multi_vars, kmer_vars, sh_vars, load_vars>>

\* Line 796.
RunReturn ==
    /\ rn_pc = "while"
    /\ ~while_condition(rn_features)
    /\ rn_pc' = "returned"
    /\ UNCHANGED <<rn_features, rn_num_features, rn_forest_iterations,
                   rn_dataset_iterations, rn_outer, rn_given, rn_local, rn_d, rn_f,
                   split_log, trainer_log>>
    /\ UNCHANGED <<elim_vars, stab_vars, pre_vars, multi_vars, kmer_vars, sh_vars, load_vars>>

\* ------------------------------------------------------------ load_dataset
\* load_dataset step by step, on one column of a file.  A cell of the file is
\* its text; a cell of a frame is a pair of its type and its text.
nan == <<"float", "nan">>

pd_NA == <<"NAType", "<NA>">>

\* The texts read_csv reads as a missing value by default, among those of
\* the files considered.
is_na_token(token) == token \in {"", "NA"}

is_numeric_token(token) == token \in {"0", "1"}

\* pd.read_csv on a column: a missing value for the texts that stand for
\* one; integers when every cell is a number, floats when the other cells are
\* numbers, and else the texts as they are.
read_csv(file) ==
    LET numeric == \A j \in DOMAIN file :
                       is_na_token(file[j]) \/ is_numeric_token(file[j])
        complete == \A j \in DOMAIN file : ~is_na_token(file[j])
    IN  [j \in DOMAIN file |->
            IF is_na_token(file[j]) THEN nan
            ELSE IF numeric /\ complete THEN <<"int", file[j]>>
            ELSE IF numeric THEN <<"float", file[j]>>
            ELSE <<"str", file[j]>>]

\* df.replace(..., inplace=True): the frame itself is changed and is the result.
ReplaceInPlace(h, ref, to_replace, value) ==
    [heap   |-> [h EXCEPT ![ref] = [j \in DOMAIN h[ref] |->
                                       IF h[ref][j] = to_replace THEN value
                                       ELSE h[ref][j]]],
     result |-> ref]

\* df.replace(to_replace=..., value=...): a new frame with the cells equal to
\* to_replace replaced by value; df is left alone.
df_replace(h, ref, to_replace, value) ==
    [heap   |-> Append(h, [j \in DOMAIN h[ref] |->
                              IF h[ref][j] = to_replace THEN value ELSE h[ref][j]]),
     result |-> Len(h) + 1]

\* Line 89: df = pd.read_csv(filepath_or_buffer=file_path)
LoadRead ==
    /\ ld_pc = "call"
    /\ ld_heap' = Append(ld_heap, read_csv(ld_file))
    /\ ld_df' = Len(ld_heap) + 1
    /\ ld_pc' = "read"
    /\ UNCHANGED <<ld_file, ld_replaced, ld_result>>
    /\ UNCHANGED <<elim_vars, stab_vars, pre_vars, multi_vars, kmer_vars, sh_vars, run_vars>>

\* Line 90: df.replace(to_replace="NA", value=pd.NA); the result is bound to
\* no name.
LoadReplace ==
    /\ ld_pc = "read"
    /\ LET replaced == df_replace(ld_heap, ld_df, <<"str", "NA">>, pd_NA)
       IN  /\ ld_heap' = replaced.heap
           /\ ld_replaced' = replaced.result
    /\ ld_pc' = "replaced"
    /\ UNCHANGED <<ld_file, ld_df, ld_result>>
    /\ UNCHANGED <<elim_vars, stab_vars, pre_vars, multi_vars, kmer_vars, sh_vars, run_vars>>

\* Line 91: return df
LoadReturn ==
    /\ ld_pc = "replaced"
    /\ ld_result' = ld_df
    /\ ld_pc' = "returned"
    /\ UNCHANGED <<ld_file, ld_heap, ld_df, ld_replaced>>
    /\ UNCHANGED <<elim_vars, stab_vars, pre_vars, multi_vars, kmer_vars, sh_vars, run_vars>>

\* ------------------------------------------------------- specification
\* load_dataset is not followed step by step.
LoadIdle ==
    /\ ld_pc = "idle"
    /\ ld_file = <<>>
    /\ ld_heap = <<>>
    /\ ld_df = 0
    /\ ld_replaced = 0
    /\ ld_result = 0

\* No run is followed call by call.
RunIdle ==
    /\ rn_pc = "idle"
    /\ rn_features = <<>>
    /\ rn_num_features = 0
    /\ rn_forest_iterations = 0
    /\ rn_dataset_iterations = 0
    /\ rn_outer = [train |-> NoFrame, test |-> NoFrame]
    /\ rn_given = NoFrame
    /\ rn_local = [train |-> NoFrame, test |-> NoFrame]
    /\ rn_d = 0
    /\ rn_f = 0
    /\ split_log = <<>>
    /\ trainer_log = <<>>

\* build_kmers is not called.
KmersIdle ==
    /\ km_pc = "idle"
    /\ sequence = <<>>
    /\ km_k = 0
    /\ kmers = <<>>

\* The paths the script can touch: environment.yml and its .tmp at the
\* repository root, and at the file system's root for an empty git_root.
Paths == {Path(dir, name) : dir \in {"", "/repo"},
                            name \in {"environment.yml", "environment.yml.tmp"}}

\* The script is not run.
ShellIdle ==
    /\ sh_pc = "idle"
    /\ in_repo = FALSE
    /\ conda_ok = FALSE
    /\ export_lines = <<>>
    /\ git_root = ""
    /\ fs = [p \in Paths |-> NoFile]
    /\ fs_before = [p \in Paths |-> NoFile]
    /\ conda_runs = 0
    /\ last_status = 0
    /\ sh_stdout = <<>>
    /\ sh_stderr = <<>>
    /\ exit_status = -1

\* The multi-split averaging is not called.
MultiIdle ==
    /\ ms_pc = "idle"
    /\ ms_columns = <<>>
    /\ ms_names = <<>>
    /\ ms_X_train = <<>>
    /\ n_forest_iterations = 0
    /\ ms_dataset_iterations = 0
    /\ ms_split = 0
    /\ ms_fit = 0
    /\ ms_inner_total = <<>>
    /\ ms_total = <<>>
    /\ ms_result = [index |-> <<>>, values |-> <<>>]
    /\ ms_least = 0
    /\ name_total = <<>>

\* No dataset is loaded.
PreIdle ==
    /\ pre_pc = "idle"
    /\ frames = <<>>
    /\ dataset = 0
    /\ raw = <<>>
    /\ dataset_imputed = 0
    /\ dataset_standardized = 0
    /\ labels = 0
    /\ dataset_preprocessed = 0
    /\ n_calls = 0

StabIdle ==
    /\ st_pc = "idle"
    /\ n_iterations = 0
    /\ st_columns = 0
    /\ st_it = 0
    /\ total_training_loss = FromInt(0)
    /\ total_validation_loss = FromInt(0)
    /\ total_feature_importances = <<>>
    /\ fit_log = <<>>
    /\ st_result = [raised |-> "", training_loss |-> FromInt(0),
                    validation_loss |-> FromInt(0), feature_importance |-> <<>>]
    /\ st_args = NoArguments
    /\ fit_calls = <<>>

\* Line 835 and line 858: avg_drop_feature_experiment(n_runs) is entered
\* (at = "agg_loop") on a file whose preprocessed frame has the columns
\* `cols`; at = "idle" when the function is not called.
ElimStart(at, cols, runs) ==
    /\ pc = at
    /\ columns = cols
    /\ n_runs = runs
    /\ heap = <<>>
    /\ n_splits = 0
    /\ i = 0
    /\ feature_drop_counts = EmptyDict
    /\ curr_feature_drop_iterations = EmptyDict
    /\ X_train = NoFrame
    /\ X_test = NoFrame
    /\ results = <<>>
    /\ feature_names = 0
    /\ feature_drop_iterations = EmptyDict
    /\ training_loss = 0
    /\ validation_loss = 0
    /\ feature_importances = <<>>
    /\ least_important_feature = 0
    /\ features_sorted = <<>>
    /\ drop_counts_sorted = <<>>
    /\ fitted = <<>>
    /\ dropped = <<>>
    /\ partitions = <<>>
    /\ run_log = <<>>
    /\ dominant = Range(cols)

Init ==
    /\ \E k \in 0..NumFeatures, runs \in 0..MaxRuns : ElimStart("agg_loop", Columns(k), runs)
    /\ StabIdle
    /\ KmersIdle
    /\ ShellIdle
    /\ RunIdle
    /\ LoadIdle
    /\ PreIdle
    /\ MultiIdle

Next ==
    \/ StartRun
    \/ Round
    \/ Return
    \/ Merge
    \/ Finish
    \/ Rank

Spec == Init /\ [][Next]_vars

\* avg_random_forest_fit_predict called on its own (as in lines 623-631), on
\* a frame with st_columns columns.
InitStab ==
    /\ ElimStart("idle", <<>>, 0)
    /\ st_pc = "call"
    /\ n_iterations \in 0..MaxIterations
    /\ st_columns \in 0..MaxStabColumns
    /\ st_it = 0
    /\ total_training_loss = FromInt(0)
    /\ total_validation_loss = FromInt(0)
    /\ total_feature_importances = <<>>
    /\ fit_log = <<>>
    /\ st_result = [raised |-> "", training_loss |-> FromInt(0),
                    validation_loss |-> FromInt(0), feature_importance |-> <<>>]
    /\ st_args = call_arguments
    /\ fit_calls = <<>>
    /\ PreIdle
    /\ MultiIdle
    /\ KmersIdle
    /\ ShellIdle
    /\ RunIdle
    /\ LoadIdle

NextStab ==
    \/ StabCall
    \/ StabIterate
    \/ StabReturn

SpecStab == InitStab /\ [][NextStab]_vars

\* The column layouts of the files: the ten listed names and two more
\* columns; the ten listed names alone; a file that lacks diet_carb.
Layouts ==
    { <<"age", "arterial_stiffness", "waist_hip_ratio", "diet_energy",
        "diet_mediterenian_score", "sex", "blood_pressure_systolic", "diet_carb",
        "diet_unsaturated_fat", "blood_ldl_cholesterol", "blood_hdl_cholesterol",
        "ldl_cholesterin_reduction">>,
      redundant_features,
      <<"age", "arterial_stiffness", "waist_hip_ratio", "diet_energy",
        "diet_mediterenian_score", "blood_pressure_systolic",
        "diet_unsaturated_fat", "blood_ldl_cholesterol", "blood_hdl_cholesterol",
        "ldl_cholesterin_reduction">> }

\* The columns whose cells vary from file to file.
ProbeColumns == {"age", "diet_energy", "ldl_cholesterin_reduction"}

\* load_dataset (lines 88-91): the frame read from a file with NumRows rows.
\* One column holds any values of 0..MaxValue or nothing in its cells, the
\* other columns hold fixed values.
load_dataset(cols, probe, values) ==
    [columns |-> cols,
     cells |-> [c \in Range(cols) |->
                  IF c = probe THEN values
                  ELSE [r \in 1..NumRows |-> FromInt((r + IndexOf(cols, c)) % 2)]],
     scale |-> [c \in Range(cols) |-> FromInt(1)]]

\* Lines 318-319: a file is loaded and preprocess_dataset is called on it.
InitPre ==
    /\ ElimStart("idle", <<>>, 0)
    /\ StabIdle
    /\ KmersIdle
    /\ ShellIdle
    /\ RunIdle
    /\ LoadIdle
    /\ MultiIdle
    /\ pre_pc = "cell"
    /\ \E cols \in Layouts :
       \E probe \in ProbeColumns \cap Range(cols) :
       \E values \in [1..NumRows -> {NaN} \cup {FromInt(v) : v \in 0..MaxValue}] :
           /\ raw = load_dataset(cols, probe, values)
           /\ frames = <<raw>>
    /\ dataset = 1
    /\ dataset_imputed = 0
    /\ dataset_standardized = 0
    /\ labels = 0
    /\ dataset_preprocessed = 0
    /\ n_calls = 0

NextPre ==
    \/ Impute
    \/ Standardize
    \/ RemoveRedundant

SpecPre == InitPre /\ [][NextPre]_vars

\* Lines 771-780: a round of drop_feature_experiment calls the multi-split
\* averaging with the active list of the round.
InitMulti ==
    /\ ElimStart("idle", <<>>, 0)
    /\ StabIdle
    /\ KmersIdle
    /\ ShellIdle
    /\ RunIdle
    /\ LoadIdle
    /\ PreIdle
    /\ ms_pc = "call"
    /\ ms_columns = Columns(MaxMultiColumns)
    /\ ms_names \in active_lists(ms_columns)
    /\ ms_X_train = <<>>
    /\ n_forest_iterations \in 1..MaxLayerIterations
    /\ ms_dataset_iterations \in 1..MaxLayerIterations
    /\ ms_split = 0
    /\ ms_fit = 0
    /\ ms_inner_total = <<>>
    /\ ms_total = <<>>
    /\ ms_result = [index |-> <<>>, values |-> <<>>]
    /\ ms_least = 0
    /\ name_total = [f \in Range(ms_columns) |-> FromInt(0)]

NextMulti ==
    \/ MultiCall
    \/ MultiSplit
    \/ MultiFit
    \/ MultiAccumulate
    \/ MultiReturn
    \/ MultiSelect

SpecMulti == InitMulti /\ [][NextMulti]_vars

\* The sequences over the nucleotides of at most n characters.
NucleotideSequences(n) == UNION {[1..len -> {"A", "C", "G", "T"}] : len \in 0..n}

\* build_kmers is called on a sequence of at most MaxSeqLen characters with
\* a word length from 0 up to one more than MaxSeqLen.
InitKmers ==
    /\ ElimStart("idle", <<>>, 0)
    /\ StabIdle
    /\ PreIdle
    /\ MultiIdle
    /\ ShellIdle
    /\ RunIdle
    /\ LoadIdle
    /\ km_pc = "call"
    /\ sequence \in NucleotideSequences(MaxSeqLen)
    /\ km_k \in 0..(MaxSeqLen + 1)
    /\ kmers = <<>>

NextKmers == BuildKmers

SpecKmers == InitKmers /\ [][NextKmers]_vars

\* Lines conda can print: the prefix line, a line that begins with the text
\* prefix without being that key, and lines that hold the text elsewhere or
\* not at all.
ExportLines ==
    { <<"prefix", ": /opt/conda/envs/ml">>,
      <<"prefix", "ed-package=1.0">>,
      <<"  - ", "prefix", "-tools=2.1">>,
      <<"name: ", "ml">> }

\* What conda can write: at most MaxExportLines lines.
Exports == UNION {[1..len -> ExportLines] : len \in 0..MaxExportLines}

\* The script is started inside or outside a repository, with or without an
\* environment.yml from an earlier run, and conda succeeds or fails.
InitShell ==
    /\ ElimStart("idle", <<>>, 0)
    /\ StabIdle
    /\ PreIdle
    /\ MultiIdle
    /\ KmersIdle
    /\ RunIdle
    /\ LoadIdle
    /\ sh_pc = "start"
    /\ in_repo \in BOOLEAN
    /\ conda_ok \in BOOLEAN
    /\ export_lines \in Exports
    /\ git_root = ""
    /\ \E old \in {NoFile, File(<<<<"prefix", ": /old">>, <<"name: ", "old">>>>)} :
           fs = [p \in Paths |-> IF p.name = "environment.yml" THEN old ELSE NoFile]
    /\ fs_before = fs
    /\ conda_runs = 0
    /\ last_status = 0
    /\ sh_stdout = <<>>
    /\ sh_stderr = <<>>
    /\ exit_status = -1

NextShell ==
    \/ GitCheck
    \/ CondaExport
    \/ GrepPrefix
    \/ MoveTmp
    \/ EchoUpdated

SpecShell == InitShell /\ [][NextShell]_vars

\* One elimination run over 0..MaxRunFeatures features, with each of the two
\* iteration counts in 0..MaxLayerIterations.
InitRun ==
    /\ ElimStart("idle", <<>>, 0)
    /\ StabIdle
    /\ PreIdle
    /\ MultiIdle
    /\ KmersIdle
    /\ ShellIdle
    /\ LoadIdle
    /\ rn_pc = "start"
    /\ rn_num_features \in 0..MaxRunFeatures
    /\ rn_features = Columns(rn_num_features)
    /\ rn_forest_iterations \in 0..MaxLayerIterations
    /\ rn_dataset_iterations \in 0..MaxLayerIterations
    /\ rn_outer = [train |-> NoFrame, test |-> NoFrame]
    /\ rn_given = NoFrame
    /\ rn_local = [train |-> NoFrame, test |-> NoFrame]
    /\ rn_d = 0
    /\ rn_f = 0
    /\ split_log = <<>>
    /\ trainer_log = <<>>

NextRun ==
    \/ RunSplit
    \/ RunCall
    \/ RunLocalSplit
    \/ RunFit
    \/ RunForestAverage
    \/ RunDatasetAverage
    \/ RunReturn

SpecRun == InitRun /\ [][NextRun]_vars

\* The texts of the cells of the files considered.
Tokens == {"NA", "", "0", "1", "high"}

\* load_dataset is called on a file with a column of at most MaxFileRows cells.
InitLoad ==
    /\ ElimStart("idle", <<>>, 0)
    /\ StabIdle
    /\ PreIdle
    /\ MultiIdle
    /\ KmersIdle
    /\ ShellIdle
    /\ RunIdle
    /\ ld_pc = "call"
    /\ ld_file \in UNION {[1..len -> Tokens] : len \in 0..MaxFileRows}
    /\ ld_heap = <<>>
    /\ ld_df = 0
    /\ ld_replaced = 0
    /\ ld_result = 0

NextLoad ==
    \/ LoadRead
    \/ LoadReplace
    \/ LoadReturn

SpecLoad == InitLoad /\ [][NextLoad]_vars

\* =================================================================
\* Properties
\* =================================================================
\* The list a dict holds for a feature.
ListOf(d, f) == heap[d.vals[f]]

\* The dict of the elimination run in progress or just returned.
RunRecord == IF pc = "while" THEN feature_drop_iterations ELSE curr_feature_drop_iterations

\* C1: one run of the elimination loop started with k active features makes
\* exactly k rounds (every round shortens the active list by one, so rounds
\* made + names left = k while it runs), and the dict it returns has exactly
\* the k column names as keys, each mapped to a one-element list.
C1_RunMakesKRounds ==
    /\ pc = "while" => Len(fitted) + Len(heap[feature_names]) = Len(columns)
    /\ pc = "merge" =>
        /\ Len(fitted) = Len(columns)
        /\ curr_feature_drop_iterations.keys = columns
        /\ \A f \in Range(columns) : Len(ListOf(curr_feature_drop_iterations, f)) = 1

C1_Witness ==
    /\ pc = "merge"
    /\ i >= 1
    /\ Len(columns) >= 3
    /\ Len(fitted) = Len(columns)

\* C2: in one run over k features the feature dropped in round j has the
\* size of the active list after its removal recorded, which is k - j, so
\* the values of the finished run, sorted, are 0, 1, ..., k-1: descending
\* k-1, ..., 0 without duplicates or gaps.
C2_RecordedCounts ==
    pc \in {"while", "merge"} =>
        /\ \A j \in DOMAIN dropped :
               ListOf(RunRecord, dropped[j]) = <<Len(columns) - j>>
        /\ (pc = "while" /\ dropped # <<>>) =>
               ListOf(RunRecord, dropped[Len(dropped)]) = <<Len(heap[feature_names])>>
        /\ pc = "merge" =>
               /\ \A f \in Range(columns) : Len(ListOf(RunRecord, f)) = 1
               /\ SortInts([j \in DOMAIN columns |-> ListOf(RunRecord, columns[j])[1]])
                      = [j \in DOMAIN columns |-> j - 1]

C2_Witness ==
    /\ pc = "merge"
    /\ Len(columns) >= 3
    /\ Len(dropped) = Len(columns)
    /\ dropped # columns

\* C3: the feature a round removes is the active feature with the minimal
\* averaged importance, and among several with the minimal importance the
\* first one in the order of the active list.
C3_DropsFirstMinimum ==
    (pc = "while" /\ fitted # <<>>) =>
        LET names == fitted[Len(fitted)]
            p     == IndexOf(names, least_important_feature)
        IN  /\ least_important_feature \in Range(names)
            /\ Len(feature_importances) = Len(names)
            /\ \A q \in DOMAIN names : feature_importances[p] <= feature_importances[q]
            /\ \A q \in 1..(p - 1) : feature_importances[p] < feature_importances[q]
            /\ heap[feature_names] = list_remove(names, least_important_feature)

C3_Witness ==
    /\ pc = "while"
    /\ fitted # <<>>
    /\ Len(feature_importances) >= 3
    /\ feature_importances[1] > feature_importances[2]
    /\ feature_importances[2] = feature_importances[3]
    /\ least_important_feature = fitted[Len(fitted)][2]

\* C4: after avg_drop_feature_experiment has run with n_runs = N >= 1, the
\* returned dict holds for every feature a list of exactly N values.
C4_NValuesPerFeature ==
    (pc \in {"returned", "ranked", "rank_error"} /\ n_runs >= 1) =>
        /\ feature_drop_counts.keys = columns
        /\ \A f \in Range(columns) : Len(ListOf(feature_drop_counts, f)) = n_runs

C4_Witness ==
    /\ pc = "returned"
    /\ n_runs >= 2
    /\ Len(columns) >= 2
    /\ \A f \in Range(columns) : Len(ListOf(feature_drop_counts, f)) = n_runs

\* C5: the accumulated lists are concatenations in run order: once i runs
\* are merged, the r-th element of a feature's list is the value the r-th
\* run recorded for the feature, for every r in 1..i.
C5_RunOrder ==
    \A f \in Range(columns) : \A r \in 1..i :
        /\ DictHas(feature_drop_counts, f)
        /\ Len(ListOf(feature_drop_counts, f)) >= r
        /\ ListOf(feature_drop_counts, f)[r] = run_log[r].recorded[f][1]

C5_Witness ==
    /\ i >= 2
    /\ \E f \in Range(columns) :
           /\ ListOf(feature_drop_counts, f)[1] # ListOf(feature_drop_counts, f)[2]
           /\ ListOf(feature_drop_counts, f)[2] = run_log[2].recorded[f][1]

\* The median of the list accumulated for a feature.
MedianCount(f) == np_median(ListOf(feature_drop_counts, f))

\* The median, over the finished runs, of the round in which the feature
\* was removed (round 1 is the first removal of a run).
MedianRound(f) == np_median([r \in DOMAIN run_log |-> run_log[r].round[f]])

\* features_sorted holds every feature once, in ascending order of the
\* median of its accumulated list.
AscendingByMedian ==
    /\ Len(features_sorted) = Len(columns)
    /\ Range(features_sorted) = Range(columns)
    /\ \A p \in DOMAIN features_sorted : \A q \in DOMAIN features_sorted :
           p < q => ~RatLess(MedianCount(features_sorted[q]), MedianCount(features_sorted[p]))

\* C6 as stated: the ranking orders the features by the median of their
\* accumulated list, ascending, and in that order the features removed
\* earliest (the least important ones) come first.
C6_EarliestDroppedFirst ==
    pc = "ranked" =>
        /\ AscendingByMedian
        /\ \A p \in DOMAIN features_sorted : \A q \in DOMAIN features_sorted :
               p < q => ~RatLess(MedianRound(features_sorted[q]), MedianRound(features_sorted[p]))

\* C6 amended: the ranking orders the features by the median of their
\* accumulated list, ascending, and in that order the features removed
\* latest (the most important ones) come first; features with equal medians
\* keep the column order.
C6_LatestDroppedFirst ==
    pc = "ranked" =>
        /\ AscendingByMedian
        /\ \A p \in DOMAIN features_sorted : \A q \in DOMAIN features_sorted :
               p < q =>
                   /\ ~RatLess(MedianRound(features_sorted[p]), MedianRound(features_sorted[q]))
                   /\ MedianCount(features_sorted[p]) = MedianCount(features_sorted[q]) =>
                          IndexOf(columns, features_sorted[p]) < IndexOf(columns, features_sorted[q])
        /\ \A p \in DOMAIN features_sorted :
               drop_counts_sorted[p] = ListOf(feature_drop_counts, features_sorted[p])

C6_Witness ==
    /\ pc = "ranked"
    /\ n_runs >= 2
    /\ Len(columns) >= 3
    /\ features_sorted # columns
    /\ \E p \in DOMAIN features_sorted : \E q \in DOMAIN features_sorted :
           /\ p < q
           /\ MedianCount(features_sorted[p]) = MedianCount(features_sorted[q])
    /\ \E f \in Range(columns) : MedianCount(f)[2] = 2

\* C7 as stated: a feature that had a strictly greater averaged importance
\* than every other active feature in every round of every run has the
\* highest median remaining-count of all features and is ranked last.
C7_DominantRankedLast ==
    pc = "ranked" =>
        \A f \in dominant :
            /\ features_sorted[Len(features_sorted)] = f
            /\ \A g \in Range(columns) : ~RatLess(MedianCount(f), MedianCount(g))

\* C7 amended: such a feature is removed last in every run, so every value
\* recorded for it is 0: it has the lowest median remaining-count of all
\* features, strictly below every other feature's, and is ranked first.
C7_DominantRankedFirst ==
    pc = "ranked" =>
        \A f \in dominant :
            /\ features_sorted[1] = f
            /\ MedianCount(f) = FromInt(0)
            /\ \A r \in DOMAIN run_log : run_log[r].recorded[f] = <<0>>
            /\ \A g \in Range(columns) \ {f} : RatLess(MedianCount(f), MedianCount(g))

C7_Witness ==
    /\ pc = "ranked"
    /\ n_runs >= 2
    /\ Len(columns) >= 3
    /\ \E f \in dominant : f # columns[1] /\ features_sorted[1] = f

\* C8 as stated: an elimination run whose starting feature set is empty
\* fails with an error; no run over an empty feature set returns.
C8_EmptyStartFails ==
    columns = <<>> => run_log = <<>>

\* The lists the accumulated dict holds.
AccumulatedRefs == {feature_drop_counts.vals[f] : f \in Range(feature_drop_counts.keys)}

\* The state right after the locals of a run are created.
RunStartsFresh ==
    (pc = "while" /\ fitted = <<>>) =>
        /\ heap[feature_names] = columns
        /\ feature_drop_iterations.keys = columns
        /\ \A f \in Range(columns) : ListOf(feature_drop_iterations, f) = <<>>
        /\ \A f \in Range(columns) :
               /\ feature_drop_iterations.vals[f] \notin AccumulatedRefs
               /\ feature_drop_iterations.vals[f] # feature_names
               /\ \A g \in Range(columns) :
                      g # f => feature_drop_iterations.vals[g] # feature_drop_iterations.vals[f]
        /\ feature_names \notin AccumulatedRefs
        /\ results = <<>>
        /\ X_train.split = n_splits
        /\ X_test.split = n_splits
        /\ n_splits > i * n_dataset_iterations * Len(columns)

\* A step of a run leaves what the earlier runs produced as it is.
RunStepKeepsEarlierRuns ==
    pc = "while" =>
        /\ feature_drop_counts' = feature_drop_counts
        /\ \A r \in AccumulatedRefs : heap'[r] = heap[r]
        /\ \A r \in DOMAIN run_log : run_log'[r] = run_log[r]

\* C9: every run of an aggregation starts from the full column list, with
\* new empty lists and a split of its own, whatever the earlier runs
\* removed, and no step of a run changes what earlier runs recorded.
C9_RunsAreIndependent ==
    /\ []RunStartsFresh
    /\ [][RunStepKeepsEarlierRuns]_vars

C9_Witness ==
    /\ pc = "while"
    /\ fitted = <<>>
    /\ i >= 1
    /\ Len(columns) >= 2
    /\ heap[feature_names] = columns
    /\ \E f \in Range(columns) : ListOf(feature_drop_counts, f) # <<0>>

\* C10: with n_iterations = 1 the averaging makes one fit and returns
\* exactly that fit's training score, validation loss and importances.
C10_OneIterationIsTheFit ==
    (st_pc = "returned" /\ n_iterations = 1) =>
        /\ Len(fit_log) = 1
        /\ st_result.raised = ""
        /\ st_result.training_loss = fit_log[1].training_loss
        /\ st_result.validation_loss = fit_log[1].validation_loss
        /\ st_result.feature_importance = fit_log[1].feature_importance

C10_Witness ==
    /\ st_pc = "returned"
    /\ n_iterations = 1
    /\ st_columns >= 2
    /\ st_result.training_loss = FromInt(1)
    /\ st_result.validation_loss = FromInt(0)
    /\ st_result.feature_importance[1] # st_result.feature_importance[2]

\* The sum of the fractions v[1], ..., v[n], as a fraction that need not be
\* in lowest terms.
RECURSIVE SumTo(_, _)
SumTo(v, n) ==
    IF n = 0 THEN FromInt(0)
    ELSE LET rest == SumTo(v, n - 1)
         IN  <<rest[1] * v[n][2] + v[n][1] * rest[2], rest[2] * v[n][2]>>

\* The fraction m is the arithmetic mean of the n fractions of v.
IsMeanOf(m, v, n) ==
    LET total == SumTo(v, n) IN m[1] * n * total[2] = total[1] * m[2]

\* C11: avg_random_forest_fit_predict calls random_forest_fit_predict exactly
\* n_iterations times, every time with the frames, labels, n_estimators and
\* max_depth it was called with, and returns the arithmetic means of the
\* training scores, of the validation losses and, column by column, of the
\* importances of these calls.
C11_MeanOfNFits ==
    /\ Len(fit_calls) = Len(fit_log)
    /\ Len(fit_calls) <= n_iterations
    /\ \A j \in DOMAIN fit_calls : fit_calls[j] = st_args
    /\ st_pc = "returned" =>
        /\ Len(fit_calls) = n_iterations
        /\ IsMeanOf(st_result.training_loss,
                    [j \in DOMAIN fit_log |-> fit_log[j].training_loss], n_iterations)
        /\ IsMeanOf(st_result.validation_loss,
                    [j \in DOMAIN fit_log |-> fit_log[j].validation_loss], n_iterations)
        /\ Len(st_result.feature_importance) = st_columns
        /\ \A c \in 1..st_columns :
               IsMeanOf(st_result.feature_importance[c],
                        [j \in DOMAIN fit_log |-> fit_log[j].feature_importance[c]],
                        n_iterations)

C11_Witness ==
    /\ st_pc = "returned"
    /\ n_iterations >= 2
    /\ st_columns >= 2
    /\ st_result.feature_importance[1] = <<1, 2>>
    /\ st_result.feature_importance[2] = FromInt(0)
    /\ st_result.validation_loss = <<1, 2>>

\* The missing cells of a frame value, as <<column, row>> pairs.
MissingCells(frame) ==
    {cr \in Range(frame.columns) \X (1..NumRows) : isna(frame.cells[cr[1]][cr[2]])}

CountBelow(a, x) == Cardinality({j \in DOMAIN a : RatLess(a[j], x)})

CountAtMost(a, x) == Cardinality({j \in DOMAIN a : ~RatLess(x, a[j])})

\* x is the k-th smallest of the values of a.
IsKthSmallest(a, x, k) ==
    /\ x \in Range(a)
    /\ CountBelow(a, x) <= k - 1
    /\ CountAtMost(a, x) >= k

\* m is the median of the available values of the column.
IsMedianOf(m, col) ==
    LET a == dropna(col)
        n == Len(a)
    IN  /\ n > 0
        /\ IF n % 2 = 1 THEN IsKthSmallest(a, m, (n + 1) \div 2)
           ELSE \E x, y \in Range(a) :
                   /\ IsKthSmallest(a, x, n \div 2)
                   /\ IsKthSmallest(a, y, n \div 2 + 1)
                   /\ RatAdd(x, y) = RatMul(FromInt(2), m)

\* Cell (c, r) of the frame value `out` is what the file with one gap should
\* hold: the median of the rest of the column in the gap, the loaded value
\* everywhere else, in the unit of the loaded values.
GapFilledCell(out, c, r) ==
    /\ out.scale[c] = raw.scale[c]
    /\ IF isna(raw.cells[c][r])
       THEN IsMedianOf(out.cells[c][r], raw.cells[c])
       ELSE out.cells[c][r] = raw.cells[c][r]

\* C12 as stated: preprocessing a dataset with exactly one missing value
\* returns a feature frame that holds the median of the rest of the column in
\* place of the missing value and the loaded value in every other cell.
C12_PreprocessOnlyFillsTheGap ==
    (pre_pc = "returned" /\ Cardinality(MissingCells(raw)) = 1) =>
        LET out == frames[dataset_preprocessed]
        IN  \A c \in Range(out.columns), r \in 1..NumRows : GapFilledCell(out, c, r)

\* C12, amended: the imputation step of preprocessing, given a dataset with
\* exactly one missing value, returns a frame with the same columns that
\* holds the median of the remaining values of the column in place of the
\* missing value and the loaded value in every other cell (the later steps
\* of preprocessing rescale every cell and drop columns).
C12_ImputeOnlyFillsTheGap ==
    (pre_pc = "imputed" /\ Cardinality(MissingCells(raw)) = 1) =>
        LET out == frames[dataset_imputed]
        IN  /\ out.columns = raw.columns
            /\ \A c \in Range(out.columns), r \in 1..NumRows : GapFilledCell(out, c, r)

C12_Witness ==
    /\ pre_pc = "imputed"
    /\ Cardinality(MissingCells(raw)) = 1
    /\ "age" \in Range(raw.columns)
    /\ raw.cells["age"] = <<FromInt(1), NaN, FromInt(0), FromInt(0)>>
    /\ frames[dataset_imputed].cells["age"] = <<FromInt(1), FromInt(0), FromInt(0), FromInt(0)>>

\* C13 as stated: whatever cells of the file are missing, the feature frame
\* returned by preprocess_dataset has no missing cell.
C13_NoMissingAfterPreprocess ==
    pre_pc = "returned" => MissingCells(frames[dataset_preprocessed]) = {}

\* Column c holds the same cells, in the same unit, in the frame values f and g.
SameColumn(f, g, c) == f.cells[c] = g.cells[c] /\ f.scale[c] = g.scale[c]

\* C14: remove_redundant_features returns as labels the label column of the
\* frame it is given, as that frame holds it, and a feature frame that has
\* none of the names of the drop list, the label included, and has every
\* other column of the given frame, in the given order and with its cells.
C14_RemovalReturnsLabelsAndTheRest ==
    pre_pc = "returned" =>
        LET given == frames[dataset_standardized]
            lab == frames[labels]
            out == frames[dataset_preprocessed]
        IN  /\ lab.columns = <<label_name>>
            /\ SameColumn(lab, given, label_name)
            /\ label_name \notin Range(out.columns)
            /\ Range(out.columns) = Range(given.columns) \ Range(redundant_features)
            /\ \A a, b \in DOMAIN out.columns :
                   a < b => IndexOf(given.columns, out.columns[a])
                                < IndexOf(given.columns, out.columns[b])
            /\ \A c \in Range(out.columns) : SameColumn(out, given, c)

C14_Witness ==
    /\ pre_pc = "returned"
    /\ frames[dataset_preprocessed].columns = <<"age", "sex">>
    /\ frames[dataset_standardized].columns[1] = "age"
    /\ frames[dataset_standardized].columns[6] = "sex"
    /\ Len(frames[dataset_standardized].columns) = 12
    /\ frames[labels].cells[label_name] # raw.cells[label_name]

\* C15: preprocessing has no side effect on the loaded dataset: through any
\* number of preprocess_dataset calls, with their imputation, standardization
\* and redundancy-removal steps, the loaded frame keeps its columns and its
\* cells, the missing ones included, and every step returns another object.
C15_RawDatasetUnchanged ==
    pre_pc # "idle" =>
        /\ frames[dataset] = raw
        /\ \A r \in {dataset_imputed, dataset_standardized, labels, dataset_preprocessed} :
               r # dataset

C15_Witness ==
    /\ pre_pc = "returned"
    /\ n_calls = 2
    /\ Cardinality(MissingCells(raw)) = 2
    /\ MissingCells(frames[dataset_imputed]) = {}
    /\ frames[dataset_standardized].cells # frames[dataset_imputed].cells
    /\ frames[dataset_preprocessed].columns # raw.columns
    /\ frames[dataset] = raw

\* The local train/validation partition of dataset iteration k of round a
\* of the current run: what the averaging of repeated fits was called on.
LocalPartition(a, k) == train_test_split(partitions[a].splits[k])

\* C16 as stated: within one run the data is split exactly once, at the start
\* of the run, and every round calls the averaging of repeated fits on the
\* same train/validation partition.
C16_OneSplitPerRun ==
    pc = "while" =>
        /\ n_splits = X_train.split
        /\ \A a \in DOMAIN partitions : \A k \in DOMAIN partitions[a].splits :
               LocalPartition(a, k) = LocalPartition(1, 1)

\* C16, amended: within one run the outer train/test split is drawn exactly
\* once, at the start of the run, and every round hands the training part of
\* that split (restricted to the active columns) to the multi-split
\* averaging; that function draws n_dataset_iterations new local
\* train/validation splits in every round and the averaging of repeated fits
\* is called once on each of them: the k-th call of round a gets the split
\* drawn as number n_dataset_iterations * (a - 1) + k after the outer one, so
\* no two calls, in the same round or in different rounds, use the same
\* partition.
C16_LocalSplitsEveryRound ==
    pc = "while" =>
        /\ X_train = train_test_split(X_train.split).train
        /\ X_test = train_test_split(X_train.split).test
        /\ Len(partitions) = Len(fitted)
        /\ n_splits = X_train.split + n_dataset_iterations * Len(fitted)
        /\ \A a \in DOMAIN partitions :
               /\ partitions[a].X_train = X_train
               /\ Len(partitions[a].splits) = n_dataset_iterations
               /\ \A k \in 1..n_dataset_iterations :
                      LocalPartition(a, k) =
                          train_test_split(X_train.split + n_dataset_iterations * (a - 1) + k)

C16_Witness ==
    /\ pc = "while"
    /\ i = 1
    /\ Len(partitions) = 2
    /\ X_train.split = 2 + 2 * n_dataset_iterations
    /\ n_splits = X_train.split + 2 * n_dataset_iterations
    /\ LocalPartition(1, 1) # LocalPartition(2, 1)
    /\ LocalPartition(1, 1) # LocalPartition(1, 2)

\* C17 as stated: the record of round r holds a copy of the active feature
\* list of that round, so that after any number of later rounds its feature
\* list is still the list round r was fitted on.
C17_ResultsHoldCopies ==
    pc = "while" =>
        /\ Len(results) = Len(fitted)
        /\ \A r \in DOMAIN results : heap[results[r][3]] = fitted[r]

\* s holds names of t only, each once, in the order they have in t.
IsOrderedSubList(s, t) ==
    /\ Range(s) \subseteq Range(t)
    /\ \A a, b \in DOMAIN s : a < b => IndexOf(t, s[a]) < IndexOf(t, s[b])

\* The active lists of the current run: the lists its rounds were fitted on
\* and the list as it is now.
ActiveLists == Append(fitted, heap[feature_names])

\* C18: during a run the active feature list loses exactly one name per
\* round, every active list is a sub-list of the full column list with the
\* surviving names in their original order, and no name is removed twice.
C18_ListShrinksByOneInOrder ==
    pc = "while" =>
        /\ ActiveLists[1] = columns
        /\ \A r \in DOMAIN ActiveLists :
               /\ Len(ActiveLists[r]) = Len(columns) - (r - 1)
               /\ IsOrderedSubList(ActiveLists[r], columns)
        /\ \A r \in DOMAIN dropped :
               /\ dropped[r] \in Range(ActiveLists[r])
               /\ Range(ActiveLists[r + 1]) = Range(ActiveLists[r]) \ {dropped[r]}
        /\ \A a, b \in DOMAIN dropped : a # b => dropped[a] # dropped[b]

C18_Witness ==
    /\ pc = "while"
    /\ Len(columns) = 3
    /\ Len(dropped) = 2
    /\ dropped[1] = columns[1]
    /\ dropped[2] = columns[3]
    /\ heap[feature_names] = <<columns[2]>>

\* C19: the elimination loop stops exactly when the active list is empty: no
\* round is fitted on an empty feature list, the loop goes on while a name is
\* left, and the last round is fitted on exactly one feature, which it drops
\* and records with the remaining count 0.
C19_StopsAtEmptyList ==
    /\ \A r \in DOMAIN fitted : fitted[r] # <<>>
    /\ (pc = "while" /\ heap[feature_names] # <<>>) => ENABLED Round
    /\ pc = "merge" =>
        /\ Len(fitted) = Len(columns)
        /\ columns # <<>> =>
               LET last == Len(fitted)
               IN  /\ Len(fitted[last]) = 1
                   /\ dropped[last] = fitted[last][1]
                   /\ ListOf(curr_feature_drop_iterations, dropped[last]) = <<0>>

C19_Witness ==
    /\ pc = "merge"
    /\ Len(columns) = 3
    /\ Len(fitted) = 3
    /\ fitted[3] = <<columns[2]>>
    /\ ListOf(curr_feature_drop_iterations, columns[2]) = <<0>>

\* The fraction m is the total divided by n.
IsShareOf(m, total, n) == m[1] * n * total[2] = total[1] * m[2]

\* C20: the averaged importance vector handed to the selection step has
\* exactly one entry per active feature and its i-th entry is the average,
\* over all fits of all local splits, of the importances the fits gave to
\* the i-th name of the active list; so the feature at the position of the
\* minimum is an active feature with the smallest average importance.
C20_ImportancesFollowTheNames ==
    ms_pc \in {"returned", "selected"} =>
        LET n_fits == n_forest_iterations * ms_dataset_iterations
        IN  /\ ms_result.index = ms_names
            /\ Len(ms_result.values) = Len(ms_names)
            /\ \A p \in DOMAIN ms_names :
                   IsShareOf(ms_result.values[p], name_total[ms_names[p]], n_fits)
            /\ ms_pc = "selected" =>
                   /\ ms_least \in Range(ms_names)
                   /\ \A f \in Range(ms_names) :
                          ~RatLess(name_total[f], name_total[ms_least])

C20_Witness ==
    /\ ms_pc = "selected"
    /\ n_forest_iterations = 2
    /\ ms_dataset_iterations = 2
    /\ ms_names = <<ms_columns[1], ms_columns[3]>>
    /\ ms_result.values = <<Rat(3, 4), Rat(1, 4)>>
    /\ ms_least = ms_columns[3]

\* The loaded frame with the cell of column c in row r replaced by v.
RawWith(c, r, v) == [raw EXCEPT !.cells[c][r] = v]

\* The frame values f and g agree on the cells of the rows outside `test`.
SameTrainingRows(f, g, test) ==
    /\ f.columns = g.columns
    /\ \A c \in Range(f.columns) :
           /\ f.scale[c] = g.scale[c]
           /\ \A r \in (1..NumRows) \ test : f.cells[c][r] = g.cells[c][r]

\* The feature columns of a frame value: the columns that are not listed as
\* redundant.
FeaturesOf(frame) ==
    frame_of(frame, SelectSeq(frame.columns, LAMBDA c : c \notin Range(redundant_features)))

\* C21 as stated: the values of the samples of the held-out test partition
\* have no influence on the preprocessed values of the training samples:
\* whatever split is drawn after preprocessing, a file that differs in a cell
\* of a test row only gives the same imputed feature values and the same
\* preprocessed feature frame on the training rows.
C21_TestRowsDoNotReachTraining ==
    pre_pc = "returned" =>
        \A test \in test_partitions(NumRows) :
        \A c \in ProbeColumns \cap Range(raw.columns) :
        \A r \in test :
        \A v \in {NaN} \cup {FromInt(x) : x \in 0..MaxValue} :
            /\ SameTrainingRows(FeaturesOf(fillna(RawWith(c, r, v))),
                                FeaturesOf(frames[dataset_imputed]), test)
            /\ SameTrainingRows(preprocess_dataset(RawWith(c, r, v)),
                                frames[dataset_preprocessed], test)

\* C22: build_kmers(sequence, k) on a sequence of L characters with
\* 1 <= k <= L returns exactly L - k + 1 words, and its i-th word (0-based)
\* is the k characters of the sequence from position i on, for increasing i.
C22_KmersAreTheWindows ==
    (km_pc = "returned" /\ 1 <= km_k /\ km_k <= Len(sequence)) =>
        /\ Len(kmers) = Len(sequence) - km_k + 1
        /\ \A w \in 0..(Len(sequence) - km_k) :
               /\ Len(kmers[w + 1]) = km_k
               /\ \A j \in 1..km_k : kmers[w + 1][j] = sequence[w + j]

\* A call with k below the length returned several different words.
C22_Witness ==
    /\ km_pc = "returned"
    /\ Len(sequence) = MaxSeqLen
    /\ km_k = 2
    /\ Len(kmers) = MaxSeqLen - 1
    /\ kmers[1] # kmers[Len(kmers)]


\* C23: run outside a git repository, the script prints an error and exits
\* with status 1; it does not run conda and it creates or changes no file.
C23_OutsideRepositoryNothingHappens ==
    (sh_pc # "idle" /\ ~in_repo) =>
        /\ sh_pc \in {"start", "exited"}
        /\ conda_runs = 0
        /\ fs = fs_before
        /\ sh_pc = "exited" =>
               /\ sh_stderr = <<"Error: Git repository root not found.">>
               /\ sh_stdout = <<>>
               /\ exit_status = 1

\* The script ended outside a repository next to an older environment.yml.
C23_Witness ==
    /\ sh_pc = "exited"
    /\ ~in_repo
    /\ exit_status = 1
    /\ \E p \in Paths : fs[p].exists

\* The text of the line begins with prefix.
StartsWithPrefix(line) == Len(line) > 0 /\ Head(line) = "prefix"

\* The lines that do not start with prefix, in their order.
RECURSIVE LinesToKeep(_)
LinesToKeep(lines) ==
    IF lines = <<>> THEN <<>>
    ELSE IF StartsWithPrefix(Head(lines)) THEN LinesToKeep(Tail(lines))
    ELSE <<Head(lines)>> \o LinesToKeep(Tail(lines))

\* C24: after a successful run inside a repository, environment.yml at the
\* repository root holds exactly the lines of the export that do not start
\* with prefix, in their order, and environment.yml.tmp does not exist.
C24_EnvironmentIsTheExportWithoutPrefix ==
    (sh_pc = "exited" /\ in_repo /\ conda_ok) =>
        /\ exit_status = 0
        /\ fs[Path("/repo", "environment.yml")] = File(LinesToKeep(export_lines))
        /\ ~fs[Path("/repo", "environment.yml.tmp")].exists

\* A successful run whose export held the prefix line and a line that has
\* the text prefix in its middle.
C24_Witness ==
    /\ sh_pc = "exited"
    /\ in_repo
    /\ conda_ok
    /\ Len(export_lines) = 2
    /\ StartsWithPrefix(export_lines[1])
    /\ ~StartsWithPrefix(export_lines[2])
    /\ \E p \in DOMAIN export_lines[2] : export_lines[2][p] = "prefix"
    /\ fs[Path("/repo", "environment.yml")].lines = <<export_lines[2]>>


\* C30: when conda env export fails inside a repository the script does not
\* stop: it runs every later line, replaces environment.yml by the filtered
\* output of the failed export, prints the closing message and exits with 0.
C30_FailedExportStillOverwrites ==
    (in_repo /\ ~conda_ok) =>
        /\ sh_pc = "grep" => conda_runs = 1
        /\ sh_pc = "exited" =>
               /\ conda_runs = 1
               /\ fs[Path("/repo", "environment.yml")] = File(LinesToKeep(export_lines))
               /\ fs[Path("/repo", "environment.yml")] # fs_before[Path("/repo", "environment.yml")]
               /\ sh_stdout = <<"Git repository root found", "Updated environment file">>
               /\ exit_status = 0

\* conda failed without printing anything and the environment.yml of an
\* earlier run was replaced by an empty file.
C30_Witness ==
    /\ sh_pc = "exited"
    /\ in_repo
    /\ ~conda_ok
    /\ export_lines = <<>>
    /\ fs_before[Path("/repo", "environment.yml")].lines # <<>>
    /\ fs[Path("/repo", "environment.yml")] = File(<<>>)
    /\ exit_status = 0


\* C25: a finished elimination run over k features called the Single-Fit
\* Trainer k * n_dataset_iterations * n_forest_iterations times and
\* train_test_split 1 + k * n_dataset_iterations times.
C25_CallCounts ==
    rn_pc = "returned" =>
        /\ Len(trainer_log) =
               rn_num_features * rn_dataset_iterations * rn_forest_iterations
        /\ Len(split_log) = 1 + rn_num_features * rn_dataset_iterations

\* A run over several features with several iterations of both loops ended.
C25_Witness ==
    /\ rn_pc = "returned"
    /\ rn_num_features = MaxRunFeatures
    /\ rn_dataset_iterations = 2
    /\ rn_forest_iterations = 2
    /\ Len(trainer_log) = 4 * MaxRunFeatures
    /\ Len(split_log) = 1 + 2 * MaxRunFeatures

\* The frame is a partition of a split of the outer training partition.
IsSubSplitOfOuterTrain(frame) ==
    /\ frame.split \in 2..Len(split_log)
    /\ split_log[frame.split] = rn_outer.train
    /\ frame.part \in {"train", "test"}

\* C26: the test partition of the outer split is given to no fit and to no
\* further split of the run: every random_forest_fit_predict is given the two
\* partitions of a split of the outer training partition.
C26_OuterTestIsHeldOut ==
    rn_pc \notin {"idle", "start"} =>
        /\ split_log[1] = Preprocessed
        /\ rn_outer = train_test_split(1)
        /\ \A s \in 2..Len(split_log) : split_log[s] = rn_outer.train
        /\ \A c \in DOMAIN trainer_log :
               /\ IsSubSplitOfOuterTrain(trainer_log[c].X_train)
               /\ IsSubSplitOfOuterTrain(trainer_log[c].X_test)
               /\ trainer_log[c].X_train # rn_outer.test
               /\ trainer_log[c].X_test # rn_outer.test
               /\ trainer_log[c].X_train # rn_outer.train

\* A run ended after fits on several local splits.
C26_Witness ==
    /\ rn_pc = "returned"
    /\ Len(trainer_log) >= 2
    /\ trainer_log[1].X_train.split # trainer_log[Len(trainer_log)].X_train.split
    /\ rn_outer.test = [split |-> 1, part |-> "test"]

\* C27: the averaging of the fits called with n_iterations = 0, and the
\* multi-split averaging called with n_dataset_iterations = 0, call no fit
\* and end in the division by zero; no score is returned.
C27_ZeroIterationsRaise ==
    /\ [](rn_num_features >= 1 /\ rn_dataset_iterations = 0 =>
             /\ rn_pc \in {"start", "while", "dataset_loop", "raised"}
             /\ trainer_log = <<>>
             /\ Len(split_log) <= 1
             /\ Len(rn_features) = rn_num_features)
    /\ [](rn_num_features >= 1 /\ rn_forest_iterations = 0 =>
             /\ rn_pc # "returned"
             /\ trainer_log = <<>>
             /\ rn_d = 0
             /\ Len(rn_features) = rn_num_features)
    /\ [][/\ (rn_pc = "dataset_loop" /\ rn_dataset_iterations = 0) => rn_pc' = "raised"
          /\ (rn_pc = "forest_loop" /\ rn_forest_iterations = 0) => rn_pc' = "raised"]_vars

\* The averaging of the fits was entered with n_iterations = 0 and raised.
C27_Witness ==
    /\ rn_pc = "raised"
    /\ rn_forest_iterations = 0
    /\ rn_dataset_iterations >= 1
    /\ Len(split_log) = 2
    /\ trainer_log = <<>>


\* No two keys of the dict hold the same list object.
SharesNoList(d) ==
    \A f, g \in Range(d.keys) : f # g => d.vals[f] # d.vals[g]

\* The lists of the record and of the running experiment are different
\* objects, and none of them is the list of names.
RecordListsAreApart ==
    /\ SharesNoList(feature_drop_counts)
    /\ SharesNoList(feature_drop_iterations)
    /\ pc = "merge" => SharesNoList(curr_feature_drop_iterations)
    /\ pc = "while" =>
           \A f \in Range(feature_drop_iterations.keys) :
               /\ feature_drop_iterations.vals[f] # feature_names
               /\ \A g \in Range(feature_drop_counts.keys) :
                      feature_drop_iterations.vals[f] # feature_drop_counts.vals[g]

\* A round appends to the list of the feature it removed and changes no
\* other list of the run and no list of the record; the merge of a run
\* appends to every list of the record the values of that feature only.
AppendKeepsOtherLists ==
    /\ (pc = "while" /\ pc' = "while") =>
           /\ \A f \in Range(feature_drop_iterations.keys) :
                  heap'[feature_drop_iterations.vals[f]] =
                      IF f = least_important_feature'
                      THEN Append(heap[feature_drop_iterations.vals[f]],
                                  Len(heap'[feature_names]))
                      ELSE heap[feature_drop_iterations.vals[f]]
           /\ \A g \in Range(feature_drop_counts.keys) :
                  heap'[feature_drop_counts.vals[g]] = heap[feature_drop_counts.vals[g]]
    /\ pc = "merge" =>
           \A g \in Range(curr_feature_drop_iterations.keys) :
               heap'[feature_drop_counts'.vals[g]] =
                   (IF DictHas(feature_drop_counts, g)
                    THEN heap[feature_drop_counts.vals[g]] ELSE <<>>)
                   \o heap[curr_feature_drop_iterations.vals[g]]

\* C28: no two features of the accumulated drop record share a sequence;
\* a step that appends a run's value to the sequence of one feature leaves
\* the sequence of every other feature as it was, in the first run and in the
\* later runs, which extend the lists adopted from the first run.
C28_FeaturesShareNoSequence ==
    /\ []RecordListsAreApart
    /\ [][AppendKeepsOtherLists]_vars

\* The second run was merged into the lists adopted from the first run and
\* two features hold different sequences.
C28_Witness ==
    /\ pc = "agg_loop"
    /\ i = 2
    /\ Len(columns) >= 2
    /\ \A f \in Range(columns) : Len(heap[feature_drop_counts.vals[f]]) = 2
    /\ \E f, g \in Range(columns) :
           heap[feature_drop_counts.vals[f]] # heap[feature_drop_counts.vals[g]]


\* C29: load_dataset returns the frame read_csv made, with every cell as it
\* was read: the replacement of "NA" makes a new frame that no name holds,
\* and changes no cell of the frame that is returned.
C29_LoadReturnsTheFrameAsRead ==
    /\ ld_pc \in {"read", "replaced", "returned"} =>
           /\ ld_df = 1
           /\ ld_heap[ld_df] = read_csv(ld_file)
    /\ ld_pc \in {"replaced", "returned"} =>
           /\ ld_replaced # ld_df
           /\ ld_replaced \in DOMAIN ld_heap
    /\ ld_pc = "returned" =>
           /\ ld_result = ld_df
           /\ ld_heap[ld_result] = read_csv(ld_file)

\* The file held the text NA and numbers; the returned frame holds a missing
\* value for it and the replacement found nothing to replace.
C29_Witness ==
    /\ ld_pc = "returned"
    /\ \E j \in DOMAIN ld_file : ld_file[j] = "NA" /\ ld_heap[ld_result][j] = nan
    /\ \E j \in DOMAIN ld_file : ld_file[j] = "1" /\ ld_heap[ld_result][j] = <<"float", "1">>
    /\ ld_heap[ld_replaced] = ld_heap[ld_result]
    /\ ld_replaced # ld_result

====
